---- MODULE Spec2Model ----
(***************************************************************************)
(* A model of minicc (src/minicc.c): the recursive-descent expression      *)
(* parser, the symbol table, the two code generators (AArch64 and x86-64)  *)
(* and a small machine that executes the instructions they emit.           *)
(***************************************************************************)
EXTENDS Integers, Sequences, FiniteSets, TLC

VARIABLES phase, src, tree, c, fi, m, calls

vars == <<phase, src, tree, c, fi, m, calls>>

\* A value for the variables a specification does not use.
NULL == [type |-> "NULL"]

(***************************************************************************)
(* Tokens.  A token sequence is what next_token yields call after call; it *)
(* ends with TOK_EOF, which next_token keeps returning.                    *)
(***************************************************************************)
Tok(t) == [type |-> t, str |-> "", num |-> 0]

TokIdent(s) == [type |-> "TOK_IDENT", str |-> s, num |-> 0]

TokNum(n) == [type |-> "TOK_NUM", str |-> "", num |-> n]

next_token(toks, i) == IF toks[i].type = "TOK_EOF" THEN i ELSE i + 1

(***************************************************************************)
(* AST nodes (new_ast and the fields each parse function fills).           *)
(***************************************************************************)
AstNum(n) == [type |-> "AST_NUM", num |-> n]

AstStr(s) == [type |-> "AST_STR", str |-> s]

AstVar(s) == [type |-> "AST_VAR", str |-> s]

AstBinop(op, l, r) == [type |-> "AST_BINOP", op |-> op, left |-> l, right |-> r]

AstUnop(op, e) == [type |-> "AST_UNOP", op |-> op, operand |-> e]

\* op is 0 for =, '+' (43) for +=, '-' (45) for -=
AstAssign(l, r, op) == [type |-> "AST_ASSIGN", left |-> l, right |-> r, op |-> op]

AstCall(name, args) == [type |-> "AST_CALL", name |-> name, args |-> args]

AstArrayAccess(name, index) == [type |-> "AST_ARRAY_ACCESS", name |-> name, index |-> index]

AstAddr(name) == [type |-> "AST_ADDR", name |-> name]

AstIf(cond, th, el) ==
    [type |-> "AST_IF", cond |-> cond, then_branch |-> th, else_branch |-> el]

AstWhile(cond, body) == [type |-> "AST_WHILE", cond |-> cond, body |-> body]

AstFor(init, cond, update, body) ==
    [type |-> "AST_FOR", init |-> init, cond |-> cond, update |-> update, body |-> body]

AstReturn(value) == [type |-> "AST_RETURN", value |-> value]

AstBlock(stmts) == [type |-> "AST_BLOCK", stmts |-> stmts]

AstFunc(name, params, body, is_void) ==
    [type |-> "AST_FUNC", name |-> name, params |-> params, body |-> body,
     is_void |-> is_void]

AstVardecl(name, init, is_array, array_size) ==
    [type |-> "AST_VARDECL", name |-> name, init |-> init, is_array |-> is_array,
     array_size |-> array_size]

AstProgram(globals, funcs) == [type |-> "AST_PROGRAM", globals |-> globals, funcs |-> funcs]

PlusChar == 43

MinusChar == 45

(***************************************************************************)
(* The expression parser.  Every parse function takes the token sequence   *)
(* and the index of the current token (c->cur) and returns the node and    *)
(* the index of the token that is current afterwards; ok = FALSE stands    *)
(* for the fatal error() exit.                                             *)
(***************************************************************************)
Parsed(node, pos) == [ok |-> TRUE, node |-> node, pos |-> pos]

ParseError == [ok |-> FALSE, node |-> NULL, pos |-> 0]

\* expect(): the position after the token, or 0 for the fatal "Unexpected token"
expect(toks, i, t) == IF toks[i].type = t THEN next_token(toks, i) ELSE 0

\* the fatal exit of a callee ends the caller too; otherwise go on with its result
Then(r, K(_)) == IF r.ok THEN K(r) ELSE ParseError

\* go on after expect()
ThenAt(j, K(_)) == IF j # 0 THEN K(j) ELSE ParseError

RECURSIVE parse_expr(_, _)
RECURSIVE parse_assignment(_, _)
RECURSIVE parse_logical_or(_, _)
RECURSIVE parse_logical_or_loop(_, _, _)
RECURSIVE parse_logical_and(_, _)
RECURSIVE parse_logical_and_loop(_, _, _)
RECURSIVE parse_equality(_, _)
RECURSIVE parse_equality_loop(_, _, _)
RECURSIVE parse_relational(_, _)
RECURSIVE parse_relational_loop(_, _, _)
RECURSIVE parse_additive(_, _)
RECURSIVE parse_additive_loop(_, _, _)
RECURSIVE parse_multiplicative(_, _)
RECURSIVE parse_multiplicative_loop(_, _, _)
RECURSIVE parse_unary(_, _)
RECURSIVE parse_primary(_, _)
RECURSIVE parse_call_args(_, _, _, _)
RECURSIVE parse_additive_loop_flat(_, _, _)

\* the while loop of the call branch of parse_primary
parse_call_args(toks, i, name, args) ==
    IF toks[i].type = "TOK_RPAREN"
    THEN Parsed(AstCall(name, args), next_token(toks, i))
    ELSE Then(parse_expr(toks, i), LAMBDA a :
            IF toks[a.pos].type # "TOK_RPAREN"
            THEN ThenAt(expect(toks, a.pos, "TOK_COMMA"), LAMBDA j :
                    parse_call_args(toks, j, name, Append(args, a.node)))
            ELSE parse_call_args(toks, a.pos, name, Append(args, a.node)))

parse_primary(toks, i) ==
    CASE toks[i].type = "TOK_NUM" -> Parsed(AstNum(toks[i].num), next_token(toks, i))
      [] toks[i].type = "TOK_STR" -> Parsed(AstStr(toks[i].str), next_token(toks, i))
      [] toks[i].type = "TOK_IDENT" ->
            IF toks[next_token(toks, i)].type = "TOK_LPAREN"
            THEN parse_call_args(toks, next_token(toks, next_token(toks, i)),
                                 toks[i].str, <<>>)
            ELSE IF toks[next_token(toks, i)].type = "TOK_LBRACKET"
            THEN Then(parse_expr(toks, next_token(toks, next_token(toks, i))), LAMBDA e :
                    ThenAt(expect(toks, e.pos, "TOK_RBRACKET"), LAMBDA k :
                        Parsed(AstArrayAccess(toks[i].str, e.node), k)))
            ELSE Parsed(AstVar(toks[i].str), next_token(toks, i))
      [] toks[i].type = "TOK_LPAREN" ->
            Then(parse_expr(toks, next_token(toks, i)), LAMBDA e :
                ThenAt(expect(toks, e.pos, "TOK_RPAREN"), LAMBDA k : Parsed(e.node, k)))
      [] toks[i].type = "TOK_AMP" ->
            IF toks[next_token(toks, i)].type # "TOK_IDENT" THEN ParseError
            ELSE Parsed(AstAddr(toks[next_token(toks, i)].str),
                        next_token(toks, next_token(toks, i)))
      [] OTHER -> ParseError

parse_unary(toks, i) ==
    IF toks[i].type = "TOK_MINUS" \/ toks[i].type = "TOK_NOT"
    THEN Then(parse_unary(toks, next_token(toks, i)), LAMBDA e :
            Parsed(AstUnop(toks[i].type, e.node), e.pos))
    ELSE IF toks[i].type = "TOK_PLUSPLUS" \/ toks[i].type = "TOK_MINUSMINUS"
    THEN IF toks[next_token(toks, i)].type # "TOK_IDENT" THEN ParseError
         ELSE Parsed(AstAssign(AstVar(toks[next_token(toks, i)].str),
                               AstBinop(IF toks[i].type = "TOK_PLUSPLUS" THEN "TOK_PLUS"
                                        ELSE "TOK_MINUS",
                                        AstVar(toks[next_token(toks, i)].str), AstNum(1)),
                               0),
                     next_token(toks, next_token(toks, i)))
    ELSE parse_primary(toks, i)

parse_multiplicative_loop(toks, i, left) ==
    IF toks[i].type \in {"TOK_STAR", "TOK_SLASH", "TOK_PERCENT"}
    THEN Then(parse_unary(toks, next_token(toks, i)), LAMBDA r :
            parse_multiplicative_loop(toks, r.pos, AstBinop(toks[i].type, left, r.node)))
    ELSE Parsed(left, i)

parse_multiplicative(toks, i) ==
    Then(parse_unary(toks, i), LAMBDA l : parse_multiplicative_loop(toks, l.pos, l.node))

\* parse_additive_loop with the right operand taken at the unary level
parse_additive_loop_flat(toks, i, left) ==
    IF toks[i].type \in {"TOK_PLUS", "TOK_MINUS"}
    THEN Then(parse_unary(toks, next_token(toks, i)), LAMBDA r :
            parse_additive_loop_flat(toks, r.pos, AstBinop(toks[i].type, left, r.node)))
    ELSE Parsed(left, i)

\* parse_additive_loop recursing on the right operand (right-associative)
parse_additive_loop_rassoc(toks, i, left) ==
    IF toks[i].type \in {"TOK_PLUS", "TOK_MINUS"}
    THEN Then(parse_additive(toks, next_token(toks, i)), LAMBDA r :
            Parsed(AstBinop(toks[i].type, left, r.node), r.pos))
    ELSE Parsed(left, i)

parse_additive_loop(toks, i, left) ==
    IF toks[i].type \in {"TOK_PLUS", "TOK_MINUS"}
    THEN Then(parse_multiplicative(toks, next_token(toks, i)), LAMBDA r :
            parse_additive_loop(toks, r.pos, AstBinop(toks[i].type, left, r.node)))
    ELSE Parsed(left, i)

parse_additive(toks, i) ==
    Then(parse_multiplicative(toks, i), LAMBDA l : parse_additive_loop(toks, l.pos, l.node))

parse_relational_loop(toks, i, left) ==
    IF toks[i].type \in {"TOK_LT", "TOK_GT", "TOK_LE", "TOK_GE"}
    THEN Then(parse_additive(toks, next_token(toks, i)), LAMBDA r :
            parse_relational_loop(toks, r.pos, AstBinop(toks[i].type, left, r.node)))
    ELSE Parsed(left, i)

parse_relational(toks, i) ==
    Then(parse_additive(toks, i), LAMBDA l : parse_relational_loop(toks, l.pos, l.node))

parse_equality_loop(toks, i, left) ==
    IF toks[i].type \in {"TOK_EQ", "TOK_NE"}
    THEN Then(parse_relational(toks, next_token(toks, i)), LAMBDA r :
            parse_equality_loop(toks, r.pos, AstBinop(toks[i].type, left, r.node)))
    ELSE Parsed(left, i)

parse_equality(toks, i) ==
    Then(parse_relational(toks, i), LAMBDA l : parse_equality_loop(toks, l.pos, l.node))

parse_logical_and_loop(toks, i, left) ==
    IF toks[i].type = "TOK_AND"
    THEN Then(parse_equality(toks, next_token(toks, i)), LAMBDA r :
            parse_logical_and_loop(toks, r.pos, AstBinop("TOK_AND", left, r.node)))
    ELSE Parsed(left, i)

parse_logical_and(toks, i) ==
    Then(parse_equality(toks, i), LAMBDA l : parse_logical_and_loop(toks, l.pos, l.node))

parse_logical_or_loop(toks, i, left) ==
    IF toks[i].type = "TOK_OR"
    THEN Then(parse_logical_and(toks, next_token(toks, i)), LAMBDA r :
            parse_logical_or_loop(toks, r.pos, AstBinop("TOK_OR", left, r.node)))
    ELSE Parsed(left, i)

parse_logical_or(toks, i) ==
    Then(parse_logical_and(toks, i), LAMBDA l : parse_logical_or_loop(toks, l.pos, l.node))

\* node->assign.op: 0 for =, '+' for +=, '-' for -=
assign_op(t) == IF t = "TOK_ASSIGN" THEN 0 ELSE IF t = "TOK_PLUSEQ" THEN PlusChar ELSE MinusChar

parse_assignment(toks, i) ==
    Then(parse_logical_or(toks, i), LAMBDA l :
        IF toks[l.pos].type \in {"TOK_ASSIGN", "TOK_PLUSEQ", "TOK_MINUSEQ"}
        THEN Then(parse_assignment(toks, next_token(toks, l.pos)), LAMBDA r :
                Parsed(AstAssign(l.node, r.node, assign_op(toks[l.pos].type)), r.pos))
        ELSE l)

parse_expr(toks, i) == parse_assignment(toks, i)

(***************************************************************************)
(* The compiler state used by code generation (struct Compiler): the       *)
(* symbol table, the counters, the collected string literals, the target   *)
(* and the assembly written so far, one record per emitted line.           *)
(*   status  "ok", "error" after error() (diagnostic "Error at line L,     *)
(*           col C: <diag>", exit(1)), or "segv" after a dereference of a  *)
(*           null Symbol pointer that faulted;                             *)
(*   nullsym what a dereference of a null Symbol pointer does in this run  *)
(*           (undefined behaviour): "segv" or "silent".                    *)
(***************************************************************************)
NewCompiler(is_arm64, is_linux, nullsym) ==
    [symbols |-> <<>>, nsymbols |-> 0, stack_offset |-> 0, label_count |-> 0,
     string_literals |-> <<>>, out |-> <<>>, status |-> "ok", diag |-> "",
     is_arm64 |-> is_arm64, is_linux |-> is_linux, nullsym |-> nullsym]

\* one line of assembly: the mnemonic (or directive) and its operands in order
I(op, a, b, cc) == [op |-> op, a |-> a, b |-> b, c |-> cc]

emit(cs, ins) == IF cs.status = "ok" THEN [cs EXCEPT !.out = Append(@, ins)] ELSE cs

emits(cs, seq) == IF cs.status = "ok" THEN [cs EXCEPT !.out = @ \o seq] ELSE cs

error(cs, msg) == IF cs.status = "ok" THEN [cs EXCEPT !.status = "error", !.diag = msg] ELSE cs

\* sym->field on a pointer find_symbol returned as NULL
null_deref(cs) == IF cs.status = "ok" /\ cs.nullsym = "segv"
                  THEN [cs EXCEPT !.status = "segv"] ELSE cs

\* a label allocation that hands out the number 0 every time
new_label_zero(cs) == 0

new_label(cs) == cs.label_count

RECURSIVE find_symbol_from(_, _, _)
find_symbol_from(cs, name, i) ==
    IF i < 1 THEN 0
    ELSE IF cs.symbols[i].name = name THEN i
    ELSE find_symbol_from(cs, name, i - 1)

\* a lookup that returns the entry with the least index whose name matches
find_symbol_first(cs, name) ==
    IF \E k \in 1..cs.nsymbols : cs.symbols[k].name = name
    THEN CHOOSE k \in 1..cs.nsymbols :
            cs.symbols[k].name = name /\ \A j \in 1..(k - 1) : cs.symbols[j].name # name
    ELSE 0

\* the index of the entry found, 0 for NULL
find_symbol(cs, name) == find_symbol_from(cs, name, cs.nsymbols)

\* add_symbol leaves sym->offset of a global or a parameter as the slot held it
add_symbol(cs, name, is_global, is_param, param_index) ==
    LET k == cs.nsymbols + 1
        local == ~is_global /\ ~is_param
        old == IF k <= Len(cs.symbols) THEN cs.symbols[k].offset ELSE 0
        sym == [name |-> name, is_global |-> is_global, is_param |-> is_param,
                param_index |-> param_index, is_array |-> FALSE, array_size |-> 0,
                offset |-> IF local THEN cs.stack_offset + 8 ELSE old]
    IN [cs EXCEPT !.symbols = IF k <= Len(@) THEN [@ EXCEPT ![k] = sym] ELSE Append(@, sym),
                  !.nsymbols = k,
                  !.stack_offset = IF local THEN @ + 8 ELSE @]

\* AST_VARDECL that marks the array and gives it no space beyond the 8 bytes
\* of add_symbol
declare_array_flat(cs, size) ==
    [cs EXCEPT !.symbols[cs.nsymbols].is_array = TRUE,
               !.symbols[cs.nsymbols].array_size = size]

\* AST_VARDECL after add_symbol: an array takes (array_size - 1) * 4 more bytes
declare_array(cs, size) ==
    [cs EXCEPT !.stack_offset = @ + (size - 1) * 4,
               !.symbols[cs.nsymbols].is_array = TRUE,
               !.symbols[cs.nsymbols].array_size = size,
               !.symbols[cs.nsymbols].offset = cs.stack_offset + (size - 1) * 4]

\* AST_STR that puts the literal in front of the ones collected before
add_string_front(cs, str) ==
    [cs EXCEPT !.string_literals = <<str>> \o @]

\* AST_STR: the literal is appended to string_literals and referenced by its index
add_string(cs, str) ==
    [cs EXCEPT !.string_literals = Append(@, str)]

(***************************************************************************)
(* Code generation, AArch64.                                               *)
(***************************************************************************)
RECURSIVE gen_expr_arm64(_, _)
RECURSIVE gen_stmt_arm64(_, _)
RECURSIVE gen_call_args_arm64(_, _, _)
RECURSIVE gen_call_args_arm64_ltr(_, _, _)
RECURSIVE gen_block_arm64(_, _, _)

ArmPush == I("str_pre", "x0", "sp", -16)

ArmPop(r) == I("ldr_post", r, "sp", 16)

ArmReg(i) == "x" \o ToString(i)

ArmGlobalAddr(r, name) ==
    <<I("adrp", r, "_" \o name, "PAGE"), I("add_pageoff", r, "_" \o name, "PAGEOFF")>>

gen_num_arm64(cs, num) ==
    IF num >= 0 /\ num < 65536
    THEN emit(cs, I("mov_imm", "w0", num, 0))
    ELSE emits(cs, <<I("mov_imm", "x0", num % 65536, 0)>> \o
                   (IF num > 65535
                    THEN <<I("movk", "x0", (num \div 65536) % 65536, 16)>>
                    ELSE <<>>))

gen_str_arm64(cs, str) ==
    emits(add_string(cs, str),
          <<I("adrp", "x0", "_str" \o ToString(Len(cs.string_literals)), "PAGE"),
            I("add_pageoff", "x0", "_str" \o ToString(Len(cs.string_literals)), "PAGEOFF")>>)

gen_var_arm64(cs, name) ==
    LET k == find_symbol(cs, name) IN
    IF k = 0 THEN error(cs, "Undefined variable")
    ELSE LET sym == cs.symbols[k] IN
         IF sym.is_global
         THEN emits(cs, ArmGlobalAddr("x0", name) \o
                        (IF sym.is_array THEN <<>> ELSE <<I("ldr", "w0", "x0", 0)>>))
         ELSE IF sym.is_param
         THEN emit(cs, I("ldr", "w0", "x29", -(sym.param_index + 1) * 8))
         ELSE emit(cs, I("ldr", "w0", "x29", -sym.offset))

gen_addr_arm64(cs, name) ==
    LET k == find_symbol(cs, name) IN
    IF k = 0 THEN error(cs, "Undefined variable")
    ELSE IF cs.symbols[k].is_global
    THEN emits(cs, ArmGlobalAddr("x0", name))
    ELSE emit(cs, I("sub_imm", "x0", "x29", cs.symbols[k].offset))

\* the base address of an array into x1, between the push and the pop of the index
array_base_arm64(cs, k, name) ==
    IF cs.symbols[k].is_global
    THEN emits(cs, ArmGlobalAddr("x1", name))
    ELSE emit(cs, I("sub_imm", "x1", "x29", cs.symbols[k].offset))

gen_array_access_arm64(cs, node) ==
    LET k == find_symbol(cs, node.name) IN
    IF k = 0 THEN error(cs, "Undefined variable")
    ELSE emits(array_base_arm64(emit(gen_expr_arm64(cs, node.index), ArmPush),
                                k, node.name),
               <<ArmPop("x0"), I("ldr_idx", "w0", "x1", "x0")>>)

\* the operator's instructions, after both operands: left in w0, right in w1
binop_arm64(cs, op) ==
    CASE op = "TOK_PLUS" -> emit(cs, I("add", "w0", "w0", "w1"))
      [] op = "TOK_MINUS" -> emit(cs, I("sub", "w0", "w0", "w1"))
      [] op = "TOK_STAR" -> emit(cs, I("mul", "w0", "w0", "w1"))
      [] op = "TOK_SLASH" -> emit(cs, I("sdiv", "w0", "w0", "w1"))
      [] op = "TOK_PERCENT" ->
            emits(cs, <<I("sdiv", "w2", "w0", "w1"), I("msub", "w0", "w2", "w1")>>)
      [] op = "TOK_EQ" -> emits(cs, <<I("cmp", "w0", "w1", 0), I("cset", "w0", "eq", 0)>>)
      [] op = "TOK_NE" -> emits(cs, <<I("cmp", "w0", "w1", 0), I("cset", "w0", "ne", 0)>>)
      [] op = "TOK_LT" -> emits(cs, <<I("cmp", "w0", "w1", 0), I("cset", "w0", "lt", 0)>>)
      [] op = "TOK_GT" -> emits(cs, <<I("cmp", "w0", "w1", 0), I("cset", "w0", "gt", 0)>>)
      [] op = "TOK_LE" -> emits(cs, <<I("cmp", "w0", "w1", 0), I("cset", "w0", "le", 0)>>)
      [] op = "TOK_GE" -> emits(cs, <<I("cmp", "w0", "w1", 0), I("cset", "w0", "ge", 0)>>)
      [] op = "TOK_AND" ->
            emits([cs EXCEPT !.label_count = @ + 1],
                  <<I("cbz", "w0", "L" \o ToString(new_label(cs)), 0),
                    I("mov", "w0", "w1", 0),
                    I("label", "L" \o ToString(new_label(cs)), 0, 0),
                    I("cmp_imm", "w0", 0, 0),
                    I("cset", "w0", "ne", 0)>>)
      [] op = "TOK_OR" ->
            emits([cs EXCEPT !.label_count = @ + 1],
                  <<I("cbnz", "w0", "L" \o ToString(new_label(cs)), 0),
                    I("mov", "w0", "w1", 0),
                    I("label", "L" \o ToString(new_label(cs)), 0, 0),
                    I("cmp_imm", "w0", 0, 0),
                    I("cset", "w0", "ne", 0)>>)
      [] OTHER -> cs

\* && and || that skip the right operand where the left one decides
short_circuit_arm64(c1, node) ==
    emits(gen_expr_arm64(
            emit([c1 EXCEPT !.label_count = @ + 1],
                 I(IF node.op = "TOK_AND" THEN "cbz" ELSE "cbnz", "w0",
                   "L" \o ToString(c1.label_count), 0)),
            node.right),
          <<I("label", "L" \o ToString(c1.label_count), 0, 0),
            I("cmp_imm", "w0", 0, 0), I("cset", "w0", "ne", 0)>>)

gen_binop_arm64_short(cs, node) ==
    IF node.op \in {"TOK_AND", "TOK_OR"}
    THEN short_circuit_arm64(gen_expr_arm64(cs, node.left), node)
    ELSE binop_arm64(emits(gen_expr_arm64(emit(gen_expr_arm64(cs, node.left), ArmPush),
                                          node.right),
                           <<I("mov", "x1", "x0", 0), ArmPop("x0")>>),
                     node.op)

gen_binop_arm64(cs, node) ==
    binop_arm64(emits(gen_expr_arm64(emit(gen_expr_arm64(cs, node.left), ArmPush),
                                     node.right),
                      <<I("mov", "x1", "x0", 0), ArmPop("x0")>>),
                node.op)

gen_unop_arm64(cs, node) ==
    CASE node.op = "TOK_MINUS" ->
            emit(gen_expr_arm64(cs, node.operand), I("neg", "w0", "w0", 0))
      [] node.op = "TOK_NOT" ->
            emits(gen_expr_arm64(cs, node.operand),
                  <<I("cmp_imm", "w0", 0, 0), I("cset", "w0", "eq", 0)>>)
      [] OTHER -> gen_expr_arm64(cs, node.operand)

\* the store of w0 into a scalar
store_var_arm64(cs, k, name) ==
    IF cs.symbols[k].is_global
    THEN emits(cs, ArmGlobalAddr("x1", name) \o <<I("str", "w0", "x1", 0)>>)
    ELSE IF cs.symbols[k].is_param
    THEN emit(cs, I("str", "w0", "x29", -(cs.symbols[k].param_index + 1) * 8))
    ELSE emit(cs, I("str", "w0", "x29", -cs.symbols[k].offset))

\* x op= e on a scalar: e is in w0; it is pushed, x loaded, and the two combined
compound_arm64(cs, node) ==
    IF node.op = 0 THEN cs
    ELSE emits(gen_expr_arm64(emit(cs, ArmPush), node.left),
               <<I("mov", "w1", "w0", 0), ArmPop("x0"),
                 IF node.op = PlusChar THEN I("add", "w0", "w1", "w0")
                 ELSE I("sub", "w0", "w1", "w0")>>)

\* AST_ASSIGN after the right-hand side has been generated
assign_target_arm64(cs, node) ==
    IF cs.status # "ok" THEN cs
    ELSE IF node.left.type = "AST_VAR"
    THEN LET k == find_symbol(cs, node.left.str) IN
         IF k = 0 THEN error(cs, "Undefined variable")
         ELSE store_var_arm64(compound_arm64(cs, node), k, node.left.str)
    ELSE IF node.left.type = "AST_ARRAY_ACCESS"
    THEN LET c2 == emit(gen_expr_arm64(emit(cs, ArmPush), node.left.index), ArmPush)
             k == find_symbol(cs, node.left.name)
             c3 == IF k = 0
                   THEN emits(null_deref(c2), ArmGlobalAddr("x1", node.left.name))
                   ELSE array_base_arm64(c2, k, node.left.name)
         IN emits(c3, <<ArmPop("x0"), ArmPop("x2"), I("str_idx", "w2", "x1", "x0"),
                        I("mov", "w0", "w2", 0)>>)
    ELSE cs

\* the argument loop running from argument 0 up instead
gen_call_args_arm64_ltr(cs, args, i) ==
    IF i < 1 THEN cs
    ELSE gen_call_args_arm64_ltr(
            emit(gen_expr_arm64(cs, args[Len(args) - i + 1]), ArmPush), args, i - 1)

\* the first loop of AST_CALL: arguments nargs-1 down to 0, each pushed
gen_call_args_arm64(cs, args, i) ==
    IF i < 1 THEN cs
    ELSE gen_call_args_arm64(emit(gen_expr_arm64(cs, args[i]), ArmPush), args, i - 1)

\* the second loop of AST_CALL: the first eight are popped into x0..x7
call_pops_arm64(n) == [i \in 1..(IF n < 8 THEN n ELSE 8) |-> ArmPop(ArmReg(i - 1))]

gen_call_arm64(cs, node) ==
    emits(gen_call_args_arm64(cs, node.args, Len(node.args)),
          call_pops_arm64(Len(node.args)) \o <<I("bl", "_" \o node.name, 0, 0)>>)

gen_expr_arm64(cs, node) ==
    IF cs.status # "ok" THEN cs
    ELSE CASE node.type = "AST_NUM" -> gen_num_arm64(cs, node.num)
           [] node.type = "AST_STR" -> gen_str_arm64(cs, node.str)
           [] node.type = "AST_VAR" -> gen_var_arm64(cs, node.str)
           [] node.type = "AST_ADDR" -> gen_addr_arm64(cs, node.name)
           [] node.type = "AST_ARRAY_ACCESS" -> gen_array_access_arm64(cs, node)
           [] node.type = "AST_BINOP" -> gen_binop_arm64(cs, node)
           [] node.type = "AST_UNOP" -> gen_unop_arm64(cs, node)
           [] node.type = "AST_ASSIGN" ->
                 assign_target_arm64(gen_expr_arm64(cs, node.right), node)
           [] node.type = "AST_CALL" -> gen_call_arm64(cs, node)
           [] OTHER -> error(cs, "Cannot generate expression")

\* an epilogue that does not restore the stack pointer from the frame pointer
ArmEpilogueNoSp == <<I("ldp_post", "x29", "x30", 16), I("ret", 0, 0, 0)>>

ArmEpilogue == <<I("mov", "sp", "x29", 0), I("ldp_post", "x29", "x30", 16), I("ret", 0, 0, 0)>>

gen_vardecl_arm64(cs, node) ==
    LET c1 == IF node.is_array
              THEN declare_array(add_symbol(cs, node.name, FALSE, FALSE, 0), node.array_size)
              ELSE add_symbol(cs, node.name, FALSE, FALSE, 0)
    IN IF node.init.type = "NULL" THEN c1
       ELSE emit(gen_expr_arm64(c1, node.init),
                 I("str", "w0", "x29", -c1.symbols[c1.nsymbols].offset))

gen_opt_stmt_arm64(cs, node) ==
    IF node.type = "NULL" THEN cs ELSE gen_stmt_arm64(cs, node)

\* AST_IF; L and L + 1 are the labels the two new_label calls returned
gen_if_arm64(cs, node, L) ==
    emit(gen_opt_stmt_arm64(
            emits(gen_stmt_arm64(emit(gen_expr_arm64(cs, node.cond),
                                      I("cbz", "w0", "L" \o ToString(L), 0)),
                                 node.then_branch),
                  <<I("b", "L" \o ToString(L + 1), 0, 0),
                    I("label", "L" \o ToString(L), 0, 0)>>),
            node.else_branch),
         I("label", "L" \o ToString(L + 1), 0, 0))

gen_while_arm64(cs, node, L) ==
    emits(gen_stmt_arm64(emit(gen_expr_arm64(emit(cs, I("label", "L" \o ToString(L), 0, 0)),
                                             node.cond),
                              I("cbz", "w0", "L" \o ToString(L + 1), 0)),
                         node.body),
          <<I("b", "L" \o ToString(L), 0, 0), I("label", "L" \o ToString(L + 1), 0, 0)>>)

for_cond_arm64(cs, node, L) ==
    IF node.cond.type = "NULL" THEN cs
    ELSE emit(gen_expr_arm64(cs, node.cond), I("cbz", "w0", "L" \o ToString(L + 1), 0))

for_update_arm64(cs, node) ==
    IF node.update.type = "NULL" THEN cs ELSE gen_expr_arm64(cs, node.update)

\* AST_FOR with the update in front of the body
gen_for_arm64_early(cs, node, L) ==
    emits(gen_stmt_arm64(
            for_update_arm64(
                for_cond_arm64(emit(gen_opt_stmt_arm64(cs, node.init),
                                    I("label", "L" \o ToString(L), 0, 0)),
                               node, L),
                node),
            node.body),
          <<I("b", "L" \o ToString(L), 0, 0), I("label", "L" \o ToString(L + 1), 0, 0)>>)

gen_for_arm64(cs, node, L) ==
    emits(for_update_arm64(
            gen_stmt_arm64(
                for_cond_arm64(emit(gen_opt_stmt_arm64(cs, node.init),
                                    I("label", "L" \o ToString(L), 0, 0)),
                               node, L),
                node.body),
            node),
          <<I("b", "L" \o ToString(L), 0, 0), I("label", "L" \o ToString(L + 1), 0, 0)>>)

gen_return_arm64(cs, node) ==
    emits(IF node.value.type = "NULL" THEN cs ELSE gen_expr_arm64(cs, node.value),
          ArmEpilogue)

gen_block_arm64(cs, stmts, i) ==
    IF i > Len(stmts) THEN cs
    ELSE gen_block_arm64(gen_stmt_arm64(cs, stmts[i]), stmts, i + 1)

gen_stmt_arm64(cs, node) ==
    IF cs.status # "ok" THEN cs
    ELSE CASE node.type = "AST_VARDECL" -> gen_vardecl_arm64(cs, node)
           [] node.type = "AST_IF" ->
                 gen_if_arm64([cs EXCEPT !.label_count = @ + 2], node, new_label(cs))
           [] node.type = "AST_WHILE" ->
                 gen_while_arm64([cs EXCEPT !.label_count = @ + 2], node, new_label(cs))
           [] node.type = "AST_FOR" ->
                 gen_for_arm64([cs EXCEPT !.label_count = @ + 2], node, new_label(cs))
           [] node.type = "AST_RETURN" -> gen_return_arm64(cs, node)
           [] node.type = "AST_BLOCK" -> gen_block_arm64(cs, node.stmts, 1)
           [] OTHER -> gen_expr_arm64(cs, node)

RECURSIVE save_params_arm64(_, _, _)
\* the parameter loop of gen_func_arm64: every parameter gets an entry and a store
save_params_arm64(cs, params, i) ==
    IF i > Len(params) THEN cs
    ELSE save_params_arm64(
            emit(add_symbol(cs, params[i], FALSE, TRUE, i - 1),
                 I("str", ArmReg(i - 1), "x29", -(i * 8))),
            params, i + 1)

\* gen_func_arm64 that leaves the symbols of the function in the table
gen_func_arm64_keep(cs, node) ==
    LET c1 == emits([cs EXCEPT !.stack_offset = 0],
                    <<I("globl", "_" \o node.name, 0, 0), I("p2align", 2, 0, 0),
                      I("label", "_" \o node.name, 0, 0),
                      I("stp_pre", "x29", "x30", -16), I("mov", "x29", "sp", 0),
                      I("sub_imm", "sp", "sp", 256)>>)
        c2 == save_params_arm64(c1, node.params, 1)
        c3 == gen_stmt_arm64([c2 EXCEPT !.stack_offset = Len(node.params) * 8], node.body)
    IN emits(c3, ArmEpilogue \o <<I("blank", 0, 0, 0)>>)

gen_func_arm64(cs, node) ==
    LET c1 == emits([cs EXCEPT !.stack_offset = 0],
                    <<I("globl", "_" \o node.name, 0, 0), I("p2align", 2, 0, 0),
                      I("label", "_" \o node.name, 0, 0),
                      I("stp_pre", "x29", "x30", -16), I("mov", "x29", "sp", 0),
                      I("sub_imm", "sp", "sp", 256)>>)
        c2 == save_params_arm64(c1, node.params, 1)
        c3 == gen_stmt_arm64([c2 EXCEPT !.stack_offset = Len(node.params) * 8], node.body)
        c4 == emits(c3, ArmEpilogue \o <<I("blank", 0, 0, 0)>>)
    IN IF c4.status = "ok" THEN [c4 EXCEPT !.nsymbols = cs.nsymbols] ELSE c4

RECURSIVE add_globals(_, _, _)
\* the first loop of gen_program_arm64 and gen_program_x64
add_globals(cs, globals, i) ==
    IF i > Len(globals) THEN cs
    ELSE add_globals(
            IF globals[i].is_array
            THEN [add_symbol(cs, globals[i].name, TRUE, FALSE, 0)
                    EXCEPT !.symbols[cs.nsymbols + 1].is_array = TRUE,
                           !.symbols[cs.nsymbols + 1].array_size = globals[i].array_size]
            ELSE add_symbol(cs, globals[i].name, TRUE, FALSE, 0),
            globals, i + 1)

Prefix(cs) == IF cs.is_linux THEN "" ELSE "_"

\* one global of the data section; the initializer is printed as init->num
global_data(cs, g, align) ==
    <<I("globl", Prefix(cs) \o g.name, 0, 0)>> \o
    (IF align THEN <<I("p2align", 2, 0, 0)>> ELSE <<>>) \o
    <<I("label", Prefix(cs) \o g.name, 0, 0),
      IF g.is_array THEN I("zero", g.array_size * 4, 0, 0)
      ELSE IF g.init.type # "NULL"
           THEN I("long", IF g.init.type = "AST_NUM" THEN g.init.num ELSE 0, 0, 0)
           ELSE I("long", 0, 0, 0),
      I("blank", 0, 0, 0)>>

RECURSIVE data_section(_, _, _, _)
data_section(cs, globals, i, align) ==
    IF i > Len(globals) THEN cs
    ELSE data_section(emits(cs, global_data(cs, globals[i], align)), globals, i + 1, align)

RECURSIVE string_section(_, _)
string_section(cs, i) ==
    IF i > Len(cs.string_literals) THEN cs
    ELSE string_section(
            emits(cs, <<I("label", Prefix(cs) \o "str" \o ToString(i - 1), 0, 0),
                        I("asciz", cs.string_literals[i], 0, 0)>>),
            i + 1)

\* gen_program_*: the globals and the text section header
gen_program_begin(cs, prog) ==
    emits(add_globals(cs, prog.globals, 1),
          <<I("section", IF cs.is_linux THEN ".text" ELSE "__TEXT,__text", 0, 0),
            I("blank", 0, 0, 0)>>)

\* gen_program_*: the data section and the string literals, after the functions
gen_program_end(cs, prog) ==
    string_section(
        emit(data_section(
                emit(cs, I("section", IF cs.is_linux THEN ".data" ELSE "__DATA,__data", 0, 0)),
                prog.globals, 1, cs.is_arm64),
             I("section", IF cs.is_linux THEN ".rodata" ELSE "__TEXT,__cstring", 0, 0)),
        1)

(***************************************************************************)
(* Code generation, x86-64.                                                *)
(***************************************************************************)
RECURSIVE gen_expr_x64(_, _)
RECURSIVE gen_stmt_x64(_, _)
RECURSIVE gen_call_args_x64(_, _, _)
RECURSIVE gen_block_x64(_, _, _)

sym_prefix(cs) == IF cs.is_linux THEN "" ELSE "_"

X64Push == I("pushq", "rax", 0, 0)

X64Regs == <<"rdi", "rsi", "rdx", "rcx", "r8", "r9">>

gen_str_x64(cs, str) ==
    emit(add_string(cs, str),
         I("leaq_rip", sym_prefix(cs) \o "str" \o ToString(Len(cs.string_literals)), "rax", 0))

gen_var_x64(cs, name) ==
    LET k == find_symbol(cs, name) IN
    IF k = 0 THEN error(cs, "Undefined variable")
    ELSE LET sym == cs.symbols[k] IN
         IF sym.is_global
         THEN IF sym.is_array
              THEN emit(cs, I("leaq_rip", sym_prefix(cs) \o name, "rax", 0))
              ELSE emit(cs, I("movl_rip", sym_prefix(cs) \o name, "eax", 0))
         ELSE IF sym.is_param
         THEN emit(cs, I("movl_ld", -(sym.param_index + 1) * 8, "rbp", "eax"))
         ELSE emit(cs, I("movl_ld", -sym.offset, "rbp", "eax"))

gen_addr_x64(cs, name) ==
    LET k == find_symbol(cs, name) IN
    IF k = 0 THEN error(cs, "Undefined variable")
    ELSE IF cs.symbols[k].is_global
    THEN emit(cs, I("leaq_rip", sym_prefix(cs) \o name, "rax", 0))
    ELSE emit(cs, I("leaq", -cs.symbols[k].offset, "rbp", "rax"))

\* the base address of an array into rcx, between the push and the pop of the index
array_base_x64(cs, k, name) ==
    IF cs.symbols[k].is_global
    THEN emit(cs, I("leaq_rip", sym_prefix(cs) \o name, "rcx", 0))
    ELSE emit(cs, I("leaq", -cs.symbols[k].offset, "rbp", "rcx"))

gen_array_access_x64(cs, node) ==
    LET k == find_symbol(cs, node.name) IN
    IF k = 0 THEN error(cs, "Undefined variable")
    ELSE emits(array_base_x64(emit(gen_expr_x64(cs, node.index), X64Push), k, node.name),
               <<I("popq", "rax", 0, 0), I("movl_ldx", "rcx", "rax", "eax")>>)

X64Compare(cond) ==
    <<I("cmpl", "ecx", "eax", 0), I("set", cond, "al", 0), I("movzbl", "al", "eax", 0)>>

\* && and || without the final test of the selected operand
binop_x64_raw(cs, op) ==
    IF op \in {"TOK_AND", "TOK_OR"}
    THEN emits([cs EXCEPT !.label_count = @ + 1],
               <<I("testl", "eax", "eax", 0),
                 I(IF op = "TOK_AND" THEN "je" ELSE "jne", "L" \o ToString(new_label(cs)), 0, 0),
                 I("movl", "ecx", "eax", 0),
                 I("label", "L" \o ToString(new_label(cs)), 0, 0)>>)
    ELSE cs

\* the operator's instructions, after both operands: left in eax, right in ecx
binop_x64(cs, op) ==
    CASE op = "TOK_PLUS" -> emit(cs, I("addl", "ecx", "eax", 0))
      [] op = "TOK_MINUS" -> emit(cs, I("subl", "ecx", "eax", 0))
      [] op = "TOK_STAR" -> emit(cs, I("imull", "ecx", "eax", 0))
      [] op = "TOK_SLASH" -> emits(cs, <<I("cltd", 0, 0, 0), I("idivl", "ecx", 0, 0)>>)
      [] op = "TOK_PERCENT" ->
            emits(cs, <<I("cltd", 0, 0, 0), I("idivl", "ecx", 0, 0),
                        I("movl", "edx", "eax", 0)>>)
      [] op = "TOK_EQ" -> emits(cs, X64Compare("e"))
      [] op = "TOK_NE" -> emits(cs, X64Compare("ne"))
      [] op = "TOK_LT" -> emits(cs, X64Compare("l"))
      [] op = "TOK_GT" -> emits(cs, X64Compare("g"))
      [] op = "TOK_LE" -> emits(cs, X64Compare("le"))
      [] op = "TOK_GE" -> emits(cs, X64Compare("ge"))
      [] op = "TOK_AND" ->
            emits([cs EXCEPT !.label_count = @ + 1],
                  <<I("testl", "eax", "eax", 0),
                    I("je", "L" \o ToString(new_label(cs)), 0, 0),
                    I("movl", "ecx", "eax", 0),
                    I("label", "L" \o ToString(new_label(cs)), 0, 0),
                    I("testl", "eax", "eax", 0),
                    I("set", "ne", "al", 0),
                    I("movzbl", "al", "eax", 0)>>)
      [] op = "TOK_OR" ->
            emits([cs EXCEPT !.label_count = @ + 1],
                  <<I("testl", "eax", "eax", 0),
                    I("jne", "L" \o ToString(new_label(cs)), 0, 0),
                    I("movl", "ecx", "eax", 0),
                    I("label", "L" \o ToString(new_label(cs)), 0, 0),
                    I("testl", "eax", "eax", 0),
                    I("set", "ne", "al", 0),
                    I("movzbl", "al", "eax", 0)>>)
      [] OTHER -> cs

gen_binop_x64(cs, node) ==
    binop_x64(emits(gen_expr_x64(emit(gen_expr_x64(cs, node.left), X64Push), node.right),
                    <<I("movl", "eax", "ecx", 0), I("popq", "rax", 0, 0)>>),
              node.op)

gen_unop_x64(cs, node) ==
    CASE node.op = "TOK_MINUS" -> emit(gen_expr_x64(cs, node.operand), I("negl", "eax", 0, 0))
      [] node.op = "TOK_NOT" ->
            emits(gen_expr_x64(cs, node.operand),
                  <<I("testl", "eax", "eax", 0), I("set", "e", "al", 0),
                    I("movzbl", "al", "eax", 0)>>)
      [] OTHER -> gen_expr_x64(cs, node.operand)

\* the store of eax into a scalar
store_var_x64(cs, k, name) ==
    IF cs.symbols[k].is_global
    THEN emit(cs, I("movl_to_rip", "eax", sym_prefix(cs) \o name, 0))
    ELSE IF cs.symbols[k].is_param
    THEN emit(cs, I("movl_st", "eax", -(cs.symbols[k].param_index + 1) * 8, "rbp"))
    ELSE emit(cs, I("movl_st", "eax", -cs.symbols[k].offset, "rbp"))

\* x op= e on a scalar: e is in eax; it is pushed, x loaded, and the two combined
compound_x64(cs, node) ==
    IF node.op = 0 THEN cs
    ELSE emits(gen_expr_x64(emit(cs, X64Push), node.left),
               <<I("movl", "eax", "ecx", 0), I("popq", "rax", 0, 0)>> \o
               (IF node.op = PlusChar THEN <<I("addl", "ecx", "eax", 0)>>
                ELSE <<I("subl", "eax", "ecx", 0), I("movl", "ecx", "eax", 0)>>))

\* AST_ASSIGN after the right-hand side has been generated
assign_target_x64(cs, node) ==
    IF cs.status # "ok" THEN cs
    ELSE IF node.left.type = "AST_VAR"
    THEN LET k == find_symbol(cs, node.left.str) IN
         IF k = 0 THEN error(cs, "Undefined variable")
         ELSE store_var_x64(compound_x64(cs, node), k, node.left.str)
    ELSE IF node.left.type = "AST_ARRAY_ACCESS"
    THEN LET c2 == emit(gen_expr_x64(emit(cs, X64Push), node.left.index), X64Push)
             k == find_symbol(cs, node.left.name)
             c3 == IF k = 0
                   THEN emit(null_deref(c2),
                             I("leaq_rip", sym_prefix(cs) \o node.left.name, "rcx", 0))
                   ELSE array_base_x64(c2, k, node.left.name)
         IN emits(c3, <<I("popq", "rax", 0, 0), I("popq", "rdx", 0, 0),
                        I("movl_stx", "edx", "rcx", "rax"), I("movl", "edx", "eax", 0)>>)
    ELSE cs

\* the first loop of AST_CALL: arguments nargs-1 down to 0, each pushed
gen_call_args_x64(cs, args, i) ==
    IF i < 1 THEN cs
    ELSE gen_call_args_x64(emit(gen_expr_x64(cs, args[i]), X64Push), args, i - 1)

\* the pops of AST_CALL filling the argument registers from the last one down
call_pops_x64_rev(n) ==
    [i \in 1..(IF n < 6 THEN n ELSE 6) |->
        I("popq", X64Regs[(IF n < 6 THEN n ELSE 6) + 1 - i], 0, 0)]

\* the second loop of AST_CALL: the first six are popped into the argument registers
call_pops_x64(n) == [i \in 1..(IF n < 6 THEN n ELSE 6) |-> I("popq", X64Regs[i], 0, 0)]

\* AST_CALL that leaves the stack pointer as the pushes left it
gen_call_x64_unaligned(cs, node) ==
    emits(gen_call_args_x64(cs, node.args, Len(node.args)),
          call_pops_x64(Len(node.args)) \o
          <<I("pushq", "rbx", 0, 0), I("movq", "rsp", "rbx", 0),
            I("xorl", "eax", "eax", 0),
            I("callq", sym_prefix(cs) \o node.name, 0, 0),
            I("movq", "rbx", "rsp", 0), I("popq", "rbx", 0, 0)>>)

gen_call_x64(cs, node) ==
    emits(gen_call_args_x64(cs, node.args, Len(node.args)),
          call_pops_x64(Len(node.args)) \o
          <<I("pushq", "rbx", 0, 0), I("movq", "rsp", "rbx", 0),
            I("andq_imm", -16, "rsp", 0), I("xorl", "eax", "eax", 0),
            I("callq", sym_prefix(cs) \o node.name, 0, 0),
            I("movq", "rbx", "rsp", 0), I("popq", "rbx", 0, 0)>>)

gen_expr_x64(cs, node) ==
    IF cs.status # "ok" THEN cs
    ELSE CASE node.type = "AST_NUM" -> emit(cs, I("movl_imm", node.num, "eax", 0))
           [] node.type = "AST_STR" -> gen_str_x64(cs, node.str)
           [] node.type = "AST_VAR" -> gen_var_x64(cs, node.str)
           [] node.type = "AST_ADDR" -> gen_addr_x64(cs, node.name)
           [] node.type = "AST_ARRAY_ACCESS" -> gen_array_access_x64(cs, node)
           [] node.type = "AST_BINOP" -> gen_binop_x64(cs, node)
           [] node.type = "AST_UNOP" -> gen_unop_x64(cs, node)
           [] node.type = "AST_ASSIGN" ->
                 assign_target_x64(gen_expr_x64(cs, node.right), node)
           [] node.type = "AST_CALL" -> gen_call_x64(cs, node)
           [] OTHER -> error(cs, "Cannot generate expression")

X64Epilogue == <<I("movq", "rbp", "rsp", 0), I("popq", "rbp", 0, 0), I("retq", 0, 0, 0)>>

gen_vardecl_x64(cs, node) ==
    LET c1 == IF node.is_array
              THEN declare_array(add_symbol(cs, node.name, FALSE, FALSE, 0), node.array_size)
              ELSE add_symbol(cs, node.name, FALSE, FALSE, 0)
    IN IF node.init.type = "NULL" THEN c1
       ELSE emit(gen_expr_x64(c1, node.init),
                 I("movl_st", "eax", -c1.symbols[c1.nsymbols].offset, "rbp"))

gen_opt_stmt_x64(cs, node) ==
    IF node.type = "NULL" THEN cs ELSE gen_stmt_x64(cs, node)

X64BranchIfZero(L) == <<I("testl", "eax", "eax", 0), I("je", "L" \o ToString(L), 0, 0)>>

\* AST_IF; L and L + 1 are the labels the two new_label calls returned
gen_if_x64(cs, node, L) ==
    emit(gen_opt_stmt_x64(
            emits(gen_stmt_x64(emits(gen_expr_x64(cs, node.cond), X64BranchIfZero(L)),
                               node.then_branch),
                  <<I("jmp", "L" \o ToString(L + 1), 0, 0),
                    I("label", "L" \o ToString(L), 0, 0)>>),
            node.else_branch),
         I("label", "L" \o ToString(L + 1), 0, 0))

gen_while_x64(cs, node, L) ==
    emits(gen_stmt_x64(emits(gen_expr_x64(emit(cs, I("label", "L" \o ToString(L), 0, 0)),
                                          node.cond),
                             X64BranchIfZero(L + 1)),
                       node.body),
          <<I("jmp", "L" \o ToString(L), 0, 0), I("label", "L" \o ToString(L + 1), 0, 0)>>)

for_cond_x64(cs, node, L) ==
    IF node.cond.type = "NULL" THEN cs
    ELSE emits(gen_expr_x64(cs, node.cond), X64BranchIfZero(L + 1))

for_update_x64(cs, node) ==
    IF node.update.type = "NULL" THEN cs ELSE gen_expr_x64(cs, node.update)

gen_for_x64(cs, node, L) ==
    emits(for_update_x64(
            gen_stmt_x64(
                for_cond_x64(emit(gen_opt_stmt_x64(cs, node.init),
                                  I("label", "L" \o ToString(L), 0, 0)),
                             node, L),
                node.body),
            node),
          <<I("jmp", "L" \o ToString(L), 0, 0), I("label", "L" \o ToString(L + 1), 0, 0)>>)

gen_return_x64(cs, node) ==
    emits(IF node.value.type = "NULL" THEN cs ELSE gen_expr_x64(cs, node.value),
          X64Epilogue)

gen_block_x64(cs, stmts, i) ==
    IF i > Len(stmts) THEN cs
    ELSE gen_block_x64(gen_stmt_x64(cs, stmts[i]), stmts, i + 1)

gen_stmt_x64(cs, node) ==
    IF cs.status # "ok" THEN cs
    ELSE CASE node.type = "AST_VARDECL" -> gen_vardecl_x64(cs, node)
           [] node.type = "AST_IF" ->
                 gen_if_x64([cs EXCEPT !.label_count = @ + 2], node, new_label(cs))
           [] node.type = "AST_WHILE" ->
                 gen_while_x64([cs EXCEPT !.label_count = @ + 2], node, new_label(cs))
           [] node.type = "AST_FOR" ->
                 gen_for_x64([cs EXCEPT !.label_count = @ + 2], node, new_label(cs))
           [] node.type = "AST_RETURN" -> gen_return_x64(cs, node)
           [] node.type = "AST_BLOCK" -> gen_block_x64(cs, node.stmts, 1)
           [] OTHER -> gen_expr_x64(cs, node)

RECURSIVE save_params_x64(_, _, _)
\* the parameter loop of gen_func_x64: only the first six get an entry and a store
save_params_x64(cs, params, i) ==
    IF i > Len(params) \/ i > 6 THEN cs
    ELSE save_params_x64(
            emit(add_symbol(cs, params[i], FALSE, TRUE, i - 1),
                 I("movq_st", X64Regs[i], -(i * 8), "rbp")),
            params, i + 1)

\* gen_func_x64 without the epilogue after the body
gen_func_x64_notail(cs, node) ==
    LET c1 == emits([cs EXCEPT !.stack_offset = 0],
                    <<I("globl", Prefix(cs) \o node.name, 0, 0),
                      I("label", Prefix(cs) \o node.name, 0, 0),
                      I("pushq", "rbp", 0, 0), I("movq", "rsp", "rbp", 0),
                      I("subq_imm", 256, "rsp", 0)>>)
        c2 == save_params_x64(c1, node.params, 1)
        c3 == gen_stmt_x64([c2 EXCEPT !.stack_offset = Len(node.params) * 8], node.body)
        c4 == emit(c3, I("blank", 0, 0, 0))
    IN IF c4.status = "ok" THEN [c4 EXCEPT !.nsymbols = cs.nsymbols] ELSE c4

gen_func_x64(cs, node) ==
    LET c1 == emits([cs EXCEPT !.stack_offset = 0],
                    <<I("globl", Prefix(cs) \o node.name, 0, 0),
                      I("label", Prefix(cs) \o node.name, 0, 0),
                      I("pushq", "rbp", 0, 0), I("movq", "rsp", "rbp", 0),
                      I("subq_imm", 256, "rsp", 0)>>)
        c2 == save_params_x64(c1, node.params, 1)
        c3 == gen_stmt_x64([c2 EXCEPT !.stack_offset = Len(node.params) * 8], node.body)
        c4 == emits(c3, X64Epilogue \o <<I("blank", 0, 0, 0)>>)
    IN IF c4.status = "ok" THEN [c4 EXCEPT !.nsymbols = cs.nsymbols] ELSE c4

gen_func(cs, node) == IF cs.is_arm64 THEN gen_func_arm64(cs, node) ELSE gen_func_x64(cs, node)

RECURSIVE gen_funcs(_, _, _)
\* the function loop of gen_program_*
gen_funcs(cs, funcs, i) ==
    IF i > Len(funcs) THEN cs ELSE gen_funcs(gen_func(cs, funcs[i]), funcs, i + 1)

\* compile() after parsing: gen_program_arm64 or gen_program_x64
gen_program(cs, prog) ==
    gen_program_end(gen_funcs(gen_program_begin(cs, prog), prog.funcs, 1), prog)

(***************************************************************************)
(* SpecParse: parse_expr applied to flat expressions                       *)
(*     operand (operator operand)*                                         *)
(* of at most MaxOperands operands, every operator drawn from the binary   *)
(* and assignment operators.                                               *)
(***************************************************************************)
MaxOperands == 3

BinaryOps == {"TOK_OR", "TOK_AND", "TOK_EQ", "TOK_NE", "TOK_LT", "TOK_GT", "TOK_LE",
              "TOK_GE", "TOK_PLUS", "TOK_MINUS", "TOK_STAR", "TOK_SLASH", "TOK_PERCENT"}

AssignOps == {"TOK_ASSIGN", "TOK_PLUSEQ", "TOK_MINUSEQ"}

OperandNames == <<"a", "b", "c", "d", "e", "f">>

\* the k-th operand of a source: an identifier or a number literal
OperandTok(k, kind) == IF kind = "id" THEN TokIdent(OperandNames[k]) ELSE TokNum(k)

FlatSource(n, kinds, ops) ==
    [k \in 1..(2 * n) |->
        IF k = 2 * n THEN Tok("TOK_EOF")
        ELSE IF k % 2 = 1 THEN OperandTok((k + 1) \div 2, kinds[(k + 1) \div 2])
        ELSE Tok(ops[k \div 2])]

NoCompiler == NULL

NoMachine == NULL

InitParse ==
    /\ phase = "start"
    /\ \E n \in 1..MaxOperands :
          \E kinds \in [1..n -> {"id", "num"}], ops \in [1..(n - 1) -> BinaryOps \cup AssignOps] :
              src = FlatSource(n, kinds, ops)
    /\ tree = NULL
    /\ c = NoCompiler
    /\ fi = 0
    /\ m = NoMachine
    /\ calls = <<>>

ParseExpr ==
    /\ phase = "start"
    /\ tree' = parse_expr(src, 1)
    /\ phase' = "parsed"
    /\ UNCHANGED <<src, c, fi, m, calls>>

NextParse == ParseExpr

SpecParse == InitParse /\ [][NextParse]_vars

(***************************************************************************)
(* The precedence table of the expression grammar, lowest level first.     *)
(***************************************************************************)
Level(op) ==
    CASE op = "TOK_OR" -> 1
      [] op = "TOK_AND" -> 2
      [] op \in {"TOK_EQ", "TOK_NE"} -> 3
      [] op \in {"TOK_LT", "TOK_GT", "TOK_LE", "TOK_GE"} -> 4
      [] op \in {"TOK_PLUS", "TOK_MINUS"} -> 5
      [] op \in {"TOK_STAR", "TOK_SLASH", "TOK_PERCENT"} -> 6

OperandNode(tok) == IF tok.type = "TOK_NUM" THEN AstNum(tok.num) ELSE AstVar(tok.str)

AssignOpOf(t) ==
    IF t = "TOK_ASSIGN" THEN 0 ELSE IF t = "TOK_PLUSEQ" THEN PlusChar ELSE MinusChar

AssignTokOf(op) ==
    IF op = 0 THEN "TOK_ASSIGN" ELSE IF op = PlusChar THEN "TOK_PLUSEQ" ELSE "TOK_MINUSEQ"

\* the tokens of a tree of operands, binary operators and assignments, in order
RECURSIVE Flatten(_)
Flatten(node) ==
    CASE node.type = "AST_NUM" -> <<TokNum(node.num)>>
      [] node.type = "AST_VAR" -> <<TokIdent(node.str)>>
      [] node.type = "AST_BINOP" ->
            Flatten(node.left) \o <<Tok(node.op)>> \o Flatten(node.right)
      [] node.type = "AST_ASSIGN" ->
            Flatten(node.left) \o <<Tok(AssignTokOf(node.op))>> \o Flatten(node.right)

\* no binary node has a binary child of a different, lower level
RECURSIVE TighterBelow(_)
TighterBelow(node) ==
    IF node.type # "AST_BINOP" THEN TRUE
    ELSE /\ \A ch \in {node.left, node.right} :
              (ch.type = "AST_BINOP" /\ Level(ch.op) # Level(node.op))
                  => Level(ch.op) > Level(node.op)
         /\ TighterBelow(node.left)
         /\ TighterBelow(node.right)

OpsOf(toks) == {toks[k].type : k \in {j \in 1..(Len(toks) - 1) : j % 2 = 0}}

SourceText(toks) == SubSeq(toks, 1, Len(toks) - 1)

\* ((o1 op1 o2) op2 o3) ... over the tokens 1..k of a flat source (k odd)
RECURSIVE LeftNest(_, _)
LeftNest(toks, k) ==
    IF k = 1 THEN OperandNode(toks[1])
    ELSE AstBinop(toks[k - 1].type, LeftNest(toks, k - 2), OperandNode(toks[k]))

\* o_k = (o_k+1 = (... )) over the tokens k.. of a flat source (k odd)
RECURSIVE RightNestAssign(_, _)
RightNestAssign(toks, k) ==
    IF k = Len(toks) - 1 THEN OperandNode(toks[k])
    ELSE AstAssign(OperandNode(toks[k]), RightNestAssign(toks, k + 2),
                   AssignOpOf(toks[k + 1].type))

\* C1: with binary operators only, the tree spells the whole text, a binary node
\* never has a child of a lower level, and for three operands joined by operators
\* of two different levels the higher-level operator is grouped first, whatever
\* the order: a + b * c is a + (b * c) and a * b + c is (a * b) + c.
C1_Precedence ==
    (phase = "parsed" /\ OpsOf(src) \subseteq BinaryOps) =>
        /\ tree.ok
        /\ src[tree.pos].type = "TOK_EOF"
        /\ Flatten(tree.node) = SourceText(src)
        /\ TighterBelow(tree.node)
        /\ (Len(src) = 6 /\ Level(src[2].type) # Level(src[4].type)) =>
              tree.node =
                 IF Level(src[2].type) > Level(src[4].type)
                 THEN AstBinop(src[4].type,
                               AstBinop(src[2].type, OperandNode(src[1]), OperandNode(src[3])),
                               OperandNode(src[5]))
                 ELSE AstBinop(src[2].type, OperandNode(src[1]),
                               AstBinop(src[4].type, OperandNode(src[3]), OperandNode(src[5])))

C1_Witness ==
    /\ phase = "parsed"
    /\ Len(src) = 6
    /\ src[2].type = "TOK_PLUS"
    /\ src[4].type = "TOK_STAR"
    /\ tree.ok
    /\ tree.node = AstBinop("TOK_PLUS", OperandNode(src[1]),
                            AstBinop("TOK_STAR", OperandNode(src[3]), OperandNode(src[5])))

SameLevel(ops) == \A o1, o2 \in ops : Level(o1) = Level(o2)

\* C2: operands joined by binary operators of one level nest to the left,
\* (a - b) - c; operands joined by =, += and -= nest to the right, a = (b = c).
C2_Associativity ==
    phase = "parsed" =>
        /\ (OpsOf(src) \subseteq BinaryOps /\ SameLevel(OpsOf(src))) =>
              (tree.ok /\ src[tree.pos].type = "TOK_EOF"
                       /\ tree.node = LeftNest(src, Len(src) - 1))
        /\ OpsOf(src) \subseteq AssignOps =>
              (tree.ok /\ src[tree.pos].type = "TOK_EOF"
                       /\ tree.node = RightNestAssign(src, 1))

C2_Witness ==
    /\ phase = "parsed"
    /\ Len(src) = 6
    /\ src[2].type = "TOK_MINUS"
    /\ src[4].type = "TOK_MINUS"
    /\ tree.ok
    /\ tree.node.type = "AST_BINOP"
    /\ tree.node.left.type = "AST_BINOP"
    /\ tree.node.right = OperandNode(src[5])

(***************************************************************************)
(* SpecGen: code generation of small programs for the four targets.  A     *)
(* program has the globals g and arr, a function f(p, q) and a function    *)
(* main whose body is a sequence of at most MaxStmts statements of         *)
(* StmtPool.  gen_program_* runs as its three parts: the globals and the   *)
(* text header, one gen_func_* per function, the data and string sections. *)
(***************************************************************************)
MaxStmts == 2

MaxArgs == 3

NullDerefOutcomes == {"segv", "silent"}

\* statements that refer to the name u, which nothing declares
UndefStmts ==
    {AstVar("u"), AstAddr("u"), AstArrayAccess("u", AstNum(0)),
     AstAssign(AstVar("u"), AstNum(1), 0), AstAssign(AstVar("u"), AstNum(1), PlusChar),
     AstAssign(AstArrayAccess("u", AstNum(0)), AstNum(1), 0)}

DeclStmts ==
    {AstVardecl("x", NULL, FALSE, 0), AstVardecl("y", AstNum(7), FALSE, 0)}
    \cup {AstVardecl("a", NULL, TRUE, n) : n \in {0, 1, 5, 60, 64}}

\* f(11, 12, ...): the k-th argument is the literal 10 + k
CallArgs(n) == [k \in 1..n |-> AstNum(10 + k)]

CallStmts == {AstCall("f", CallArgs(n)) : n \in 0..MaxArgs}

UseStmts ==
    {AstCall("printf", <<AstStr("hi"), AstVar("g")>>),
     AstAssign(AstArrayAccess("arr", AstNum(1)), AstVar("g"), 0),
     AstAssign(AstVar("g"), AstAddr("g"), MinusChar)}

StmtPool == UndefStmts \cup DeclStmts \cup CallStmts \cup UseStmts

Bodies == UNION {[1..n -> StmtPool] : n \in 0..MaxStmts}

GenProgram(body) ==
    AstProgram(<<AstVardecl("g", AstNum(42), FALSE, 0), AstVardecl("arr", NULL, TRUE, 4)>>,
               <<AstFunc("f", <<"p", "q">>, AstBlock(<<AstReturn(AstVar("p"))>>), FALSE),
                 AstFunc("main", <<>>, AstBlock(body), FALSE)>>)

InitGen ==
    /\ phase = "start"
    /\ src \in {[prog |-> GenProgram(b), is_arm64 |-> arm, is_linux |-> lin] :
                    b \in Bodies, arm \in BOOLEAN, lin \in BOOLEAN}
    /\ tree = NULL
    /\ c = NoCompiler
    /\ fi = 0
    /\ m = NoMachine
    /\ calls = <<>>

GenProgramBegin ==
    /\ phase = "start"
    /\ c' = gen_program_begin(NewCompiler(src.is_arm64, src.is_linux, "none"), src.prog)
    /\ fi' = 1
    /\ phase' = "funcs"
    /\ UNCHANGED <<src, tree, m, calls>>

\* one iteration of the function loop; error() and a fault end the compiler
GenFunc ==
    /\ phase = "funcs"
    /\ fi <= Len(src.prog.funcs)
    /\ \E ns \in NullDerefOutcomes :
          c' = [gen_func([c EXCEPT !.nullsym = ns], src.prog.funcs[fi])
                  EXCEPT !.nullsym = "none"]
    /\ fi' = fi + 1
    /\ phase' = IF c'.status = "ok" THEN "funcs" ELSE "exit"
    /\ UNCHANGED <<src, tree, m, calls>>

GenProgramEnd ==
    /\ phase = "funcs"
    /\ fi > Len(src.prog.funcs)
    /\ c' = gen_program_end(c, src.prog)
    /\ phase' = "emitted"
    /\ UNCHANGED <<src, tree, fi, m, calls>>

NextGen == GenProgramBegin \/ GenFunc \/ GenProgramEnd

SpecGen == InitGen /\ [][NextGen]_vars

MainBody == src.prog.funcs[2].body.stmts

\* main has been generated (or the compiler has stopped in it)
MainDone == phase \in {"funcs", "exit", "emitted"} /\ fi = 3

(***************************************************************************)
(* Properties of the generated code (SpecGen).                             *)
(***************************************************************************)
HasUndef(body) == \E k \in 1..Len(body) : body[k] \in UndefStmts

\* C5: a reference to a name without a symbol-table entry (read, address-of,
\* element read, scalar target, element target) ends code generation with
\* the fatal diagnostic, on both back-ends; it is never compiled silently
\* and never dereferences the missing entry.
C5_UndefinedIsFatal ==
    (MainDone /\ HasUndef(MainBody)) =>
        (c.status = "error" /\ c.diag = "Undefined variable" /\ phase = "exit")

\* the statements whose undefined name does reach error(): every kind of
\* reference but the array-element assignment target
C5_CheckedKindsAreFatal ==
    (MainDone /\ Len(MainBody) >= 1 /\ MainBody[1] \in UndefStmts
        /\ ~(MainBody[1].type = "AST_ASSIGN" /\ MainBody[1].left.type = "AST_ARRAY_ACCESS")) =>
        (c.status = "error" /\ c.diag = "Undefined variable" /\ phase = "exit")

IsLiteralLoad(ins, v) ==
    \/ ins.op = "mov_imm" /\ ins.b = v
    \/ ins.op = "movl_imm" /\ ins.a = v

\* where in the output the literal v is loaded into the accumulator
EvalPos(v) == CHOOSE k \in 1..Len(c.out) : IsLiteralLoad(c.out[k], v)

CallsIn(body) == {k \in 1..Len(body) : body[k].type = "AST_CALL" /\ body[k].name = "f"}

\* main holds exactly one call f(11, 12, ...) with n arguments and was generated
OneCall(n) ==
    /\ MainDone
    /\ c.status = "ok"
    /\ Cardinality(CallsIn(MainBody)) = 1
    /\ \A k \in CallsIn(MainBody) : Len(MainBody[k].args) = n

FrameSize == 256

\* the entries the function just generated left in the symbol array
LocalSymbols ==
    {k \in (c.nsymbols + 1)..Len(c.symbols) :
        ~c.symbols[k].is_global /\ ~c.symbols[k].is_param}

\* C9: after the local declarations of a function body every local symbol's
\* frame offset is a positive multiple of 4 and below the 256 bytes the
\* prologue reserves, or else the function was rejected.
C9_OffsetsInFrame ==
    MainDone =>
        \/ c.status = "error"
        \/ \A k \in LocalSymbols :
              /\ c.symbols[k].offset > 0
              /\ c.symbols[k].offset % 4 = 0
              /\ c.symbols[k].offset < FrameSize

TextOps == {"adrp", "add_pageoff", "bl", "callq", "leaq_rip", "movl_rip", "movl_to_rip"}

SymbolOf(ins) ==
    IF ins.op \in {"adrp", "add_pageoff", "movl_to_rip"} THEN ins.b ELSE ins.a

\* the symbols the text section refers to
TextRefs == {SymbolOf(c.out[k]) : k \in {n \in 1..Len(c.out) : c.out[n].op \in TextOps}}

LocalLabels == {"L" \o ToString(n) : n \in 0..c.label_count}

\* the symbols the output defines
Defined == {c.out[k].a : k \in {n \in 1..Len(c.out) : c.out[n].op = "label"}} \ LocalLabels

ProgramNames ==
    {src.prog.funcs[k].name : k \in 1..Len(src.prog.funcs)}
    \cup {src.prog.globals[k].name : k \in 1..Len(src.prog.globals)}
    \cup {"str" \o ToString(k - 1) : k \in 1..Len(c.string_literals)}

LibraryNames == {"printf"}

Spelled(name) == (IF src.is_linux THEN "" ELSE "_") \o name

\* C10: on each of the four targets every symbol the text section refers to
\* is spelled like its definition in the same output, with a leading
\* underscore on macOS and bare on Linux, references and definitions alike.
C10_SymbolSpelling ==
    (phase = "emitted" /\ ~HasUndef(MainBody)) =>
        /\ Defined = {Spelled(n) : n \in ProgramNames}
        /\ TextRefs \subseteq Defined \cup {Spelled(n) : n \in LibraryNames}

(***************************************************************************)
(* The target machines.  A register holds a signed 32-bit value or a small *)
(* address; a write to a w or e register leaves the upper half zero, so a  *)
(* 64-bit store writes the value and a zero word above it.  Memory maps    *)
(* the byte address of a 32-bit word to its value.                         *)
(***************************************************************************)
MaxInt == 2147483647

MinInt == -2147483647 - 1

Add32(a, b) ==
    IF a >= 0 /\ b >= 0 /\ a > MaxInt - b THEN (a + MinInt) + (b + MinInt)
    ELSE IF a < 0 /\ b < 0 /\ a < MinInt - b THEN (a - MinInt) + (b - MinInt)
    ELSE a + b

Neg32(a) == IF a = MinInt THEN MinInt ELSE -a

Sub32(a, b) == Add32(a, Neg32(b))

AddIf(d, a, bit) == IF bit = 1 THEN Add32(d, a) ELSE d

Twice(a) == Add32(a, a)

RECURSIVE Mul32(_, _)
Mul32(a, b) ==
    IF b = 0 THEN 0
    ELSE IF b = -1 THEN Neg32(a)
    ELSE AddIf(Twice(Mul32(a, b \div 2)), a, b % 2)

\* the quotient rounded toward zero, b positive
TruncDivPos(a, b) == IF a < 0 /\ a % b # 0 THEN (a \div b) + 1 ELSE a \div b

\* a / b as both machines compute it when b # 0 and the quotient fits
TruncDiv(a, b) ==
    IF b > 0 THEN TruncDivPos(a, b)
    ELSE IF b = MinInt THEN (IF a = MinInt THEN 1 ELSE 0)
    ELSE Neg32(TruncDivPos(a, -b))

\* sdiv: division by zero yields 0, and INT_MIN / -1 wraps to INT_MIN
ArmDiv(a, b) == IF b = 0 THEN 0 ELSE TruncDiv(a, b)

PageSize == 4096

StackTop == 2 * PageSize

DataBase == 4 * PageSize

RegAlias == [w0 |-> "x0", w1 |-> "x1", w2 |-> "x2",
             eax |-> "rax", al |-> "rax", ecx |-> "rcx", edx |-> "rdx"]

Canon(r) == IF r \in DOMAIN RegAlias THEN RegAlias[r] ELSE r

RegNames == {"x0", "x1", "x2", "x3", "x4", "x5", "x6", "x7", "x8", "x9", "x10",
             "x29", "x30", "sp",
             "rax", "rcx", "rdx", "rbx", "rdi", "rsi", "r8", "r9", "rbp", "rsp"}

R(mm, r) == mm.regs[Canon(r)]

SetReg(mm, r, v) == [mm EXCEPT !.regs[Canon(r)] = v]

Fault(mm, why) == [mm EXCEPT !.status = why]

Store32(mm, a, v) == [mm EXCEPT !.mem = (a :> v) @@ @]

Store64(mm, a, v) == [mm EXCEPT !.mem = (a :> v) @@ ((a + 4) :> 0) @@ @]

\* a 32-bit load into register r
Load32(mm, r, a) ==
    IF a \in DOMAIN mm.mem THEN SetReg(mm, r, mm.mem[a]) ELSE Fault(mm, "segv")

\* a 64-bit load into register r; the word above must be the zero a store left
Load64(mm, r, a) ==
    IF a \in DOMAIN mm.mem /\ (a + 4) \in DOMAIN mm.mem /\ mm.mem[a + 4] = 0
    THEN SetReg(mm, r, mm.mem[a]) ELSE Fault(mm, "segv")

\* element idx of the array at base; a negative 32-bit index is a huge
\* 64-bit one, since the index register is used at its full width
ElemAddr(mm, base, idx) == R(mm, base) + 4 * R(mm, idx)

Cond(cc, flags) ==
    CASE cc \in {"eq", "e"} -> flags[1] = flags[2]
      [] cc = "ne" -> flags[1] # flags[2]
      [] cc \in {"lt", "l"} -> flags[1] < flags[2]
      [] cc \in {"gt", "g"} -> flags[1] > flags[2]
      [] cc = "le" -> flags[1] <= flags[2]
      [] cc = "ge" -> flags[1] >= flags[2]

Bit(b) == IF b THEN 1 ELSE 0

DataSize(ins) ==
    CASE ins.op = "long" -> 4
      [] ins.op = "zero" -> ins.a
      [] ins.op = "asciz" -> 8
      [] OTHER -> 0

\* the lines of the output that take room in the data image
DataLines(out) == {k \in 1..Len(out) : out[k].op \in {"long", "zero", "asciz"}}

RECURSIVE SizeOfLines(_, _)
SizeOfLines(out, lines) ==
    IF lines = {} THEN 0
    ELSE DataSize(out[CHOOSE k \in lines : TRUE])
            + SizeOfLines(out, lines \ {CHOOSE k \in lines : TRUE})

\* the address the loader gives to the line k of the output
AddrBefore(out, k) == DataBase + SizeOfLines(out, {j \in DataLines(out) : j < k})

LabelIndex(out, sym) ==
    IF \E k \in 1..Len(out) : out[k].op = "label" /\ out[k].a = sym
    THEN CHOOSE k \in 1..Len(out) : out[k].op = "label" /\ out[k].a = sym
    ELSE 0

\* the address of a data symbol, 0 when no line of the output defines it
SymAddr(out, sym) ==
    IF LabelIndex(out, sym) = 0 THEN 0 ELSE AddrBefore(out, LabelIndex(out, sym))

EmptyMem == [a \in {} |-> 0]

DataWords(ins, addr) ==
    CASE ins.op = "long" -> (addr :> ins.a)
      [] ins.op = "zero" -> [a \in {addr + 4 * i : i \in 0..((ins.a \div 4) - 1)} |-> 0]
      [] ins.op = "asciz" -> (addr :> 0) @@ ((addr + 4) :> 0)
      [] OTHER -> EmptyMem

RECURSIVE ImageOfLines(_, _)
ImageOfLines(out, lines) ==
    IF lines = {} THEN EmptyMem
    ELSE DataWords(out[CHOOSE k \in lines : TRUE], AddrBefore(out, CHOOSE k \in lines : TRUE))
            @@ ImageOfLines(out, lines \ {CHOOSE k \in lines : TRUE})

\* the initialised data of the output as the loader maps it
DataImage(out) == ImageOfLines(out, DataLines(out))

\* control continues at the label; an undefined symbol does not link
Goto(mm, out, sym) ==
    IF LabelIndex(out, sym) = 0 THEN Fault(mm, "unresolved")
    ELSE [mm EXCEPT !.pc = LabelIndex(out, sym)]

\* control continues at a return address; 0 is the caller of the entry function
Return(mm, addr) ==
    IF addr = 0 THEN [mm EXCEPT !.status = "halt"] ELSE [mm EXCEPT !.pc = addr]

Fall(mm) == IF mm.status = "run" THEN [mm EXCEPT !.pc = @ + 1] ELSE mm

Directives == {"label", "globl", "p2align", "section", "blank"}

WRegs == {"w0", "w1", "w2"}

MaxIndex == 16 * PageSize

\* an index register outside 0..MaxIndex addresses no mapped word
WildIndex(mm, idx) == R(mm, idx) < 0 \/ R(mm, idx) > MaxIndex

\* one AArch64 instruction of the output
ExecArm(mm, ins, out) ==
    CASE ins.op = "mov_imm" -> Fall(SetReg(mm, ins.a, ins.b))
      [] ins.op = "movk" -> Fall(SetReg(mm, ins.a, (R(mm, ins.a) % 65536) + ins.b * 65536))
      [] ins.op = "adrp" ->
            IF SymAddr(out, ins.b) = 0 THEN Fault(mm, "unresolved")
            ELSE Fall(SetReg(mm, ins.a, SymAddr(out, ins.b) - (SymAddr(out, ins.b) % PageSize)))
      [] ins.op = "add_pageoff" ->
            IF SymAddr(out, ins.b) = 0 THEN Fault(mm, "unresolved")
            ELSE Fall(SetReg(mm, ins.a, R(mm, ins.a) + (SymAddr(out, ins.b) % PageSize)))
      [] ins.op = "ldr" -> Fall(Load32(mm, ins.a, R(mm, ins.b) + ins.c))
      [] ins.op = "str" ->
            Fall(IF ins.a \in WRegs
                 THEN Store32(mm, R(mm, ins.b) + ins.c, R(mm, ins.a))
                 ELSE Store64(mm, R(mm, ins.b) + ins.c, R(mm, ins.a)))
      [] ins.op = "ldr_idx" ->
            IF WildIndex(mm, ins.c) THEN Fault(mm, "segv")
            ELSE Fall(Load32(mm, ins.a, ElemAddr(mm, ins.b, ins.c)))
      [] ins.op = "str_idx" ->
            IF WildIndex(mm, ins.c) THEN Fault(mm, "segv")
            ELSE Fall(Store32(mm, ElemAddr(mm, ins.b, ins.c), R(mm, ins.a)))
      [] ins.op = "str_pre" ->
            Fall(Store64(SetReg(mm, ins.b, R(mm, ins.b) + ins.c),
                         R(mm, ins.b) + ins.c, R(mm, ins.a)))
      [] ins.op = "ldr_post" ->
            Fall(SetReg(Load64(mm, ins.a, R(mm, ins.b)), ins.b, R(mm, ins.b) + ins.c))
      [] ins.op = "stp_pre" ->
            Fall(Store64(Store64(SetReg(mm, "sp", R(mm, "sp") + ins.c),
                                 R(mm, "sp") + ins.c, R(mm, ins.a)),
                         R(mm, "sp") + ins.c + 8, R(mm, ins.b)))
      [] ins.op = "ldp_post" ->
            Fall(SetReg(Load64(Load64(mm, ins.a, R(mm, "sp")), ins.b, R(mm, "sp") + 8),
                        "sp", R(mm, "sp") + ins.c))
      [] ins.op = "sub_imm" -> Fall(SetReg(mm, ins.a, R(mm, ins.b) - ins.c))
      [] ins.op = "mov" -> Fall(SetReg(mm, ins.a, R(mm, ins.b)))
      [] ins.op = "add" -> Fall(SetReg(mm, ins.a, Add32(R(mm, ins.b), R(mm, ins.c))))
      [] ins.op = "sub" -> Fall(SetReg(mm, ins.a, Sub32(R(mm, ins.b), R(mm, ins.c))))
      [] ins.op = "mul" -> Fall(SetReg(mm, ins.a, Mul32(R(mm, ins.b), R(mm, ins.c))))
      [] ins.op = "sdiv" -> Fall(SetReg(mm, ins.a, ArmDiv(R(mm, ins.b), R(mm, ins.c))))
      [] ins.op = "msub" ->
            Fall(SetReg(mm, ins.a, Sub32(R(mm, ins.a), Mul32(R(mm, ins.b), R(mm, ins.c)))))
      [] ins.op = "neg" -> Fall(SetReg(mm, ins.a, Neg32(R(mm, ins.b))))
      [] ins.op = "cmp" -> Fall([mm EXCEPT !.flags = <<R(mm, ins.a), R(mm, ins.b)>>])
      [] ins.op = "cmp_imm" -> Fall([mm EXCEPT !.flags = <<R(mm, ins.a), ins.b>>])
      [] ins.op = "cset" -> Fall(SetReg(mm, ins.a, Bit(Cond(ins.b, mm.flags))))
      [] ins.op = "cbz" -> IF R(mm, ins.a) = 0 THEN Goto(mm, out, ins.b) ELSE Fall(mm)
      [] ins.op = "cbnz" -> IF R(mm, ins.a) # 0 THEN Goto(mm, out, ins.b) ELSE Fall(mm)
      [] ins.op = "b" -> Goto(mm, out, ins.a)
      [] ins.op = "bl" -> Goto(SetReg(mm, "x30", mm.pc + 1), out, ins.a)
      [] ins.op = "ret" -> Return(mm, R(mm, "x30"))
      [] ins.op \in Directives -> Fall(mm)
      [] OTHER -> Fault(mm, "segv")

\* idivl after cltd: the dividend is eax sign-extended
Idivl(mm, d) ==
    IF R(mm, d) = 0 \/ (R(mm, "eax") = MinInt /\ R(mm, d) = -1) THEN Fault(mm, "sigfpe")
    ELSE SetReg(SetReg(mm, "edx", Sub32(R(mm, "eax"),
                                        Mul32(TruncDiv(R(mm, "eax"), R(mm, d)), R(mm, d)))),
                "eax", TruncDiv(R(mm, "eax"), R(mm, d)))

\* one x86-64 instruction of the output
ExecX64(mm, ins, out) ==
    CASE ins.op = "movl_imm" -> Fall(SetReg(mm, ins.b, ins.a))
      [] ins.op = "leaq_rip" ->
            IF SymAddr(out, ins.a) = 0 THEN Fault(mm, "unresolved")
            ELSE Fall(SetReg(mm, ins.b, SymAddr(out, ins.a)))
      [] ins.op = "movl_rip" ->
            IF SymAddr(out, ins.a) = 0 THEN Fault(mm, "unresolved")
            ELSE Fall(Load32(mm, ins.b, SymAddr(out, ins.a)))
      [] ins.op = "movl_to_rip" ->
            IF SymAddr(out, ins.b) = 0 THEN Fault(mm, "unresolved")
            ELSE Fall(Store32(mm, SymAddr(out, ins.b), R(mm, ins.a)))
      [] ins.op = "movl_ld" -> Fall(Load32(mm, ins.c, R(mm, ins.b) + ins.a))
      [] ins.op = "movl_st" -> Fall(Store32(mm, R(mm, ins.c) + ins.b, R(mm, ins.a)))
      [] ins.op = "movq_st" -> Fall(Store64(mm, R(mm, ins.c) + ins.b, R(mm, ins.a)))
      [] ins.op = "leaq" -> Fall(SetReg(mm, ins.c, R(mm, ins.b) + ins.a))
      [] ins.op = "pushq" ->
            Fall(Store64(SetReg(mm, "rsp", R(mm, "rsp") - 8), R(mm, "rsp") - 8, R(mm, ins.a)))
      [] ins.op = "popq" ->
            Fall(SetReg(Load64(mm, ins.a, R(mm, "rsp")), "rsp", R(mm, "rsp") + 8))
      [] ins.op = "movl_ldx" ->
            IF WildIndex(mm, ins.b) THEN Fault(mm, "segv")
            ELSE Fall(Load32(mm, ins.c, ElemAddr(mm, ins.a, ins.b)))
      [] ins.op = "movl_stx" ->
            IF WildIndex(mm, ins.c) THEN Fault(mm, "segv")
            ELSE Fall(Store32(mm, ElemAddr(mm, ins.b, ins.c), R(mm, ins.a)))
      [] ins.op \in {"movl", "movq"} -> Fall(SetReg(mm, ins.b, R(mm, ins.a)))
      [] ins.op = "addl" -> Fall(SetReg(mm, ins.b, Add32(R(mm, ins.b), R(mm, ins.a))))
      [] ins.op = "subl" -> Fall(SetReg(mm, ins.b, Sub32(R(mm, ins.b), R(mm, ins.a))))
      [] ins.op = "imull" -> Fall(SetReg(mm, ins.b, Mul32(R(mm, ins.b), R(mm, ins.a))))
      [] ins.op = "cltd" -> Fall(SetReg(mm, "edx", IF R(mm, "eax") < 0 THEN -1 ELSE 0))
      [] ins.op = "idivl" -> Fall(Idivl(mm, ins.a))
      [] ins.op = "cmpl" -> Fall([mm EXCEPT !.flags = <<R(mm, ins.b), R(mm, ins.a)>>])
      [] ins.op = "testl" -> Fall([mm EXCEPT !.flags = <<R(mm, ins.a), 0>>])
      [] ins.op = "set" ->
            Fall(SetReg(mm, ins.b, (R(mm, ins.b) - (R(mm, ins.b) % 256))
                                      + Bit(Cond(ins.a, mm.flags))))
      [] ins.op = "movzbl" -> Fall(SetReg(mm, ins.b, R(mm, ins.a) % 256))
      [] ins.op = "negl" -> Fall(SetReg(mm, ins.a, Neg32(R(mm, ins.a))))
      [] ins.op = "je" -> IF Cond("e", mm.flags) THEN Goto(mm, out, ins.a) ELSE Fall(mm)
      [] ins.op = "jne" -> IF Cond("ne", mm.flags) THEN Goto(mm, out, ins.a) ELSE Fall(mm)
      [] ins.op = "jmp" -> Goto(mm, out, ins.a)
      [] ins.op = "callq" ->
            Goto(Store64(SetReg(mm, "rsp", R(mm, "rsp") - 8), R(mm, "rsp") - 8, mm.pc + 1),
                 out, ins.a)
      [] ins.op = "retq" ->
            IF R(mm, "rsp") \in DOMAIN mm.mem
            THEN Return(SetReg(mm, "rsp", R(mm, "rsp") + 8), mm.mem[R(mm, "rsp")])
            ELSE Fault(mm, "segv")
      [] ins.op = "andq_imm" -> Fall(SetReg(mm, ins.b, R(mm, ins.b) - (R(mm, ins.b) % (-ins.a))))
      [] ins.op = "xorl" -> Fall(SetReg(mm, ins.b, 0))
      [] ins.op = "subq_imm" -> Fall(SetReg(mm, ins.b, R(mm, ins.b) - ins.a))
      [] ins.op \in Directives -> Fall(mm)
      [] OTHER -> Fault(mm, "segv")

Exec(mm, ins, out, is_arm64) ==
    IF is_arm64 THEN ExecArm(mm, ins, out) ELSE ExecX64(mm, ins, out)

(***************************************************************************)
(* Running the output.  compile() generates the program of src, the loader *)
(* maps its data, enters the function src.entry with src.args in the       *)
(* argument registers, and the machine executes one line per step.  calls  *)
(* holds, for every call that has not returned, the caller's stack         *)
(* pointer, frame pointer and memory at the call instruction; the step     *)
(* that returns moves the innermost of them to m.ret.                      *)
(***************************************************************************)
NoReturn == NULL

FuncLabel(cs, name) == IF cs.is_arm64 THEN "_" \o name ELSE Prefix(cs) \o name

ArgRegs(is_arm64) ==
    IF is_arm64 THEN <<"x0", "x1", "x2", "x3", "x4", "x5", "x6", "x7">> ELSE X64Regs

SPName(is_arm64) == IF is_arm64 THEN "sp" ELSE "rsp"

FPName(is_arm64) == IF is_arm64 THEN "x29" ELSE "rbp"

AccName(is_arm64) == IF is_arm64 THEN "w0" ELSE "eax"

\* the registers at the entry: the arguments, the stack pointer, and the
\* return address 0 in x30 or, on x86-64, pushed by the caller
EntryRegs(is_arm64, args) ==
    [r \in RegNames |->
        IF \E k \in 1..Len(args) : ArgRegs(is_arm64)[k] = r
        THEN args[CHOOSE k \in 1..Len(args) : ArgRegs(is_arm64)[k] = r]
        ELSE IF r = "sp" THEN StackTop
        ELSE IF r = "rsp" THEN StackTop - 8
        ELSE 0]

EntryMem(cs) ==
    IF cs.is_arm64 THEN DataImage(cs.out)
    ELSE ((StackTop - 8) :> 0) @@ ((StackTop - 4) :> 0) @@ DataImage(cs.out)

Loaded(cs, entry, args) ==
    Goto([pc |-> 0, regs |-> EntryRegs(cs.is_arm64, args), mem |-> EntryMem(cs),
          flags |-> <<0, 0>>, status |-> "run", ret |-> NoReturn],
         cs.out, FuncLabel(cs, entry))

Compile ==
    /\ phase = "start"
    /\ c' = gen_program(NewCompiler(src.is_arm64, src.is_linux, "none"), src.prog)
    /\ phase' = IF c'.status = "ok" THEN "compiled" ELSE "exit"
    /\ UNCHANGED <<src, tree, fi, m, calls>>

Load ==
    /\ phase = "compiled"
    /\ m' = Loaded(c, src.entry, src.args)
    /\ phase' = "run"
    /\ UNCHANGED <<src, tree, c, fi, calls>>

IsCall(ins) == ins.op \in {"bl", "callq"}

IsRet(ins) == ins.op \in {"ret", "retq"}

CallerState(mm, is_arm64) ==
    [type |-> "CALL", sp |-> R(mm, SPName(is_arm64)), fp |-> R(mm, FPName(is_arm64)),
     mem |-> mm.mem, pc |-> mm.pc]

Step ==
    /\ phase = "run"
    /\ m.status = "run"
    /\ m.pc <= Len(c.out)
    /\ m' = [Exec(m, c.out[m.pc], c.out, c.is_arm64) EXCEPT
                !.ret = IF IsRet(c.out[m.pc]) /\ calls # <<>>
                        THEN calls[Len(calls)] ELSE NoReturn]
    /\ calls' = IF IsCall(c.out[m.pc]) THEN Append(calls, CallerState(m, c.is_arm64))
                ELSE IF IsRet(c.out[m.pc]) /\ calls # <<>>
                     THEN SubSeq(calls, 1, Len(calls) - 1)
                     ELSE calls
    /\ UNCHANGED <<phase, src, tree, c, fi>>

NextRun == Compile \/ Load \/ Step

InitRun ==
    /\ phase = "start"
    /\ tree = NULL
    /\ c = NoCompiler
    /\ fi = 0
    /\ m = NoMachine
    /\ calls = <<>>

Targets == {[is_arm64 |-> arm, is_linux |-> lin] : arm \in BOOLEAN, lin \in BOOLEAN}

Run(prog, entry, args, t, test) ==
    [prog |-> prog, entry |-> entry, args |-> args,
     is_arm64 |-> t.is_arm64, is_linux |-> t.is_linux, test |-> test]

Halted == phase = "run" /\ m.status = "halt"

\* the function result, in w0 or eax
Acc == R(m, AccName(src.is_arm64))

\* the output was generated, linked and has run without a fault so far
NoFault == phase \in {"start", "compiled"} \/ (phase = "run" /\ m.status \in {"run", "halt"})

(***************************************************************************)
(* SpecLogic: int main(int a, int b) { return a && b; } and the same with  *)
(* ||, entered with every pair of LogicValues.                             *)
(***************************************************************************)
LogicValues == {0, 1, 2, 256, 65536, MaxInt, -1, -256, MinInt}

LogicProgram(op) ==
    AstProgram(<<>>,
               <<AstFunc("main", <<"a", "b">>,
                         AstBlock(<<AstReturn(AstBinop(op, AstVar("a"), AstVar("b")))>>),
                         FALSE)>>)

InitLogic ==
    /\ InitRun
    /\ src \in {Run(LogicProgram(op), "main", <<a, b>>, t, [op |-> op]) :
                    op \in {"TOK_AND", "TOK_OR"}, a \in LogicValues, b \in LogicValues,
                    t \in Targets}

SpecLogic == InitLogic /\ [][NextRun]_vars

\* C3: for all operand values a and b the code of a && b leaves 1 in the
\* accumulator exactly when both are nonzero and 0 otherwise, the code of
\* a || b leaves 1 exactly when one of them is nonzero and 0 otherwise, on
\* both back-ends; the result is never a value other than 0 or 1.
C3_LogicalValue ==
    /\ NoFault
    /\ Halted =>
          /\ Acc \in {0, 1}
          /\ src.test.op = "TOK_AND" => (Acc = 1 <=> (src.args[1] # 0 /\ src.args[2] # 0))
          /\ src.test.op = "TOK_OR" => (Acc = 1 <=> (src.args[1] # 0 \/ src.args[2] # 0))

C3_Witness ==
    /\ Halted
    /\ src.test.op = "TOK_AND"
    /\ src.args = <<256, MinInt>>
    /\ ~src.is_arm64
    /\ Acc = 1

(***************************************************************************)
(* SpecAssign: `x = p; x op= v; return x;` in int main(int p, int v) for   *)
(* every kind of l-value x and op in {+=, -=}, entered with every pair of  *)
(* AssignValues.  The kind "index" returns the index variable of           *)
(* `a[i += 1] op= v` instead.                                              *)
(***************************************************************************)
AssignValues == {0, 1, 5, -3, MaxInt, MinInt}

AssignKinds == {"global", "param", "local", "local_elem", "global_elem", "index"}

Elem(name) == AstArrayAccess(name, AstNum(1))

\* the statements before the compound assignment, its target, the value returned
AssignCase(kind) ==
    CASE kind = "global" ->
            [pre |-> <<AstAssign(AstVar("g"), AstVar("p"), 0)>>,
             target |-> AstVar("g"), result |-> AstVar("g")]
      [] kind = "param" ->
            [pre |-> <<>>, target |-> AstVar("p"), result |-> AstVar("p")]
      [] kind = "local" ->
            [pre |-> <<AstVardecl("x", AstVar("p"), FALSE, 0)>>,
             target |-> AstVar("x"), result |-> AstVar("x")]
      [] kind = "local_elem" ->
            [pre |-> <<AstVardecl("a", NULL, TRUE, 4), AstAssign(Elem("a"), AstVar("p"), 0)>>,
             target |-> Elem("a"), result |-> Elem("a")]
      [] kind = "global_elem" ->
            [pre |-> <<AstAssign(Elem("arr"), AstVar("p"), 0)>>,
             target |-> Elem("arr"), result |-> Elem("arr")]
      [] kind = "index" ->
            [pre |-> <<AstVardecl("a", NULL, TRUE, 4), AstVardecl("i", AstNum(0), FALSE, 0),
                       AstAssign(Elem("a"), AstVar("p"), 0)>>,
             target |-> AstArrayAccess("a", AstAssign(AstVar("i"), AstNum(1), PlusChar)),
             result |-> AstVar("i")]

AssignProgram(kind, op) ==
    AstProgram(<<AstVardecl("g", AstNum(42), FALSE, 0), AstVardecl("arr", NULL, TRUE, 4)>>,
               <<AstFunc("main", <<"p", "v">>,
                         AstBlock(AssignCase(kind).pre \o
                                  <<AstAssign(AssignCase(kind).target, AstVar("v"), op),
                                    AstReturn(AssignCase(kind).result)>>),
                         FALSE)>>)

InitAssign ==
    /\ InitRun
    /\ src \in {Run(AssignProgram(kind, op), "main", <<p, v>>, t, [kind |-> kind, op |-> op]) :
                    kind \in AssignKinds, op \in {PlusChar, MinusChar},
                    p \in AssignValues, v \in AssignValues, t \in Targets}

SpecAssign == InitAssign /\ [][NextRun]_vars

\* (old value of x) op (value of e), in 32-bit arithmetic
Compound(op, old, e) == IF op = PlusChar THEN Add32(old, e) ELSE Sub32(old, e)

\* the AArch64 Linux output refers to its globals by names it does not define
Links == ~(src.is_arm64 /\ src.is_linux /\ src.test.kind \in {"global", "global_elem"})

\* C4: for x op= e with op in {+, -} the code stores (old value of x) op
\* (value of e) into x, for every l-value x that is a scalar variable
\* (global, parameter, local) or an array element a[i]; the index of an
\* array element is evaluated exactly once.
C4_CompoundAssign ==
    Links =>
        /\ NoFault
        /\ Halted =>
              IF src.test.kind = "index" THEN Acc = 1
              ELSE Acc = Compound(src.test.op, src.args[1], src.args[2])

\* for a scalar l-value the code does store (old value) op (value of e), and
\* the index of an element l-value is evaluated once
C4_ScalarCompound ==
    (Links /\ src.test.kind \in {"global", "param", "local", "index"}) =>
        /\ NoFault
        /\ Halted =>
              IF src.test.kind = "index" THEN Acc = 1
              ELSE Acc = Compound(src.test.op, src.args[1], src.args[2])

\* for an element l-value the code stores the value of e, whatever op is
C4_ElementStoresOperand ==
    (Links /\ src.test.kind \in {"local_elem", "global_elem"}) =>
        /\ NoFault
        /\ Halted => Acc = src.args[2]

(***************************************************************************)
(* SpecCall: calls.  A parameter program is                                *)
(*     int f(int p1, ..., int pn) { return pi; }                           *)
(*     int main(int a) { return f(a + 1, ..., a + n); }                    *)
(* for n in 1..MaxParams and i in 1..n; a recursion program is factorial   *)
(* of src/factorial.c or fib of src/fib.c, entered with n in 0..MaxDepth.  *)
(***************************************************************************)
MaxParams == 8

MaxDepth == 4

CallValues == {0, 7, MaxInt}

ParamName(k) == "p" \o ToString(k)

ParamProgram(n, i) ==
    AstProgram(<<>>,
               <<AstFunc("f", [k \in 1..n |-> ParamName(k)],
                         AstBlock(<<AstReturn(AstVar(ParamName(i)))>>), FALSE),
                 AstFunc("main", <<"a">>,
                         AstBlock(<<AstReturn(
                             AstCall("f", [k \in 1..n |->
                                              AstBinop("TOK_PLUS", AstVar("a"), AstNum(k))]))>>),
                         FALSE)>>)

factorial ==
    AstFunc("factorial", <<"n">>,
            AstBlock(<<AstIf(AstBinop("TOK_LE", AstVar("n"), AstNum(1)),
                             AstBlock(<<AstReturn(AstNum(1))>>), NULL),
                       AstReturn(AstBinop("TOK_STAR", AstVar("n"),
                                          AstCall("factorial",
                                                  <<AstBinop("TOK_MINUS", AstVar("n"),
                                                             AstNum(1))>>)))>>),
            FALSE)

fib ==
    AstFunc("fib", <<"n">>,
            AstBlock(<<AstIf(AstBinop("TOK_LE", AstVar("n"), AstNum(1)),
                             AstBlock(<<AstReturn(AstVar("n"))>>), NULL),
                       AstReturn(AstBinop("TOK_PLUS",
                                          AstCall("fib", <<AstBinop("TOK_MINUS", AstVar("n"),
                                                                    AstNum(1))>>),
                                          AstCall("fib", <<AstBinop("TOK_MINUS", AstVar("n"),
                                                                    AstNum(2))>>)))>>),
            FALSE)

RecProgram == AstProgram(<<>>, <<factorial, fib>>)

InitCall ==
    /\ InitRun
    /\ src \in {Run(ParamProgram(n, i), "main", <<a>>, t, [kind |-> "param", n |-> n, i |-> i]) :
                    n \in 1..MaxParams, i \in 1..MaxParams, a \in CallValues, t \in Targets}
               \cup {Run(RecProgram, f, <<n>>, t, [kind |-> "rec", n |-> n, i |-> 0]) :
                        f \in {"factorial", "fib"}, n \in 0..MaxDepth, t \in Targets}
    /\ src.test.i <= src.test.n

SpecCall == InitCall /\ [][NextRun]_vars

\* n is within the argument registers of the target: 8 on AArch64, 6 on x86-64
InRegisters == src.test.kind = "param" /\ src.test.n <= Len(ArgRegs(src.is_arm64))

\* C7: for a call with n arguments to a function with n parameters, n at
\* most 6 on x86-64 and at most 8 on AArch64, the value of the i-th argument
\* expression is the value a read of the i-th parameter yields in the callee.
C7_ArgumentToParameter ==
    InRegisters =>
        /\ NoFault
        /\ Halted => Acc = Add32(src.args[1], src.test.i)

C7_Witness ==
    /\ InRegisters
    /\ Halted
    /\ ~src.is_arm64
    /\ src.test.n = 6
    /\ src.test.i = 6
    /\ src.args = <<MaxInt>>
    /\ Acc = MinInt + 5

RECURSIVE Factorial(_)
Factorial(n) == IF n <= 1 THEN 1 ELSE Mul32(n, Factorial(n - 1))

RECURSIVE Fib(_)
Fib(n) == IF n <= 1 THEN n ELSE Add32(Fib(n - 1), Fib(n - 2))

SP == R(m, SPName(src.is_arm64))

FP == R(m, FPName(src.is_arm64))

\* this step returned from a call
Returned == phase = "run" /\ m.ret.type = "CALL"

\* the words of the stack at and above the caller's stack pointer
CallerWords == {a \in DOMAIN m.ret.mem : a >= m.ret.sp /\ a <= StackTop}

\* C8: when a callee returns through its epilogue the stack pointer and the
\* frame pointer have the values they had just before the call, and the
\* caller's parameter slots, locals and spilled operands hold the same
\* values, at any recursion depth; so n * factorial(n - 1) multiplies by
\* the n the caller spilled.
C8_CallerStateIntact ==
    src.test.kind = "rec" =>
        /\ NoFault
        /\ Returned =>
              /\ SP = m.ret.sp
              /\ FP = m.ret.fp
              /\ \A a \in CallerWords : a \in DOMAIN m.mem /\ m.mem[a] = m.ret.mem[a]
        /\ Halted =>
              Acc = IF src.entry = "factorial" THEN Factorial(src.args[1])
                    ELSE Fib(src.args[1])

\* a return at recursion depth MaxDepth - 1, two callers still waiting
C8_Witness ==
    /\ src.test.kind = "rec"
    /\ src.entry = "factorial"
    /\ Returned
    /\ Len(calls) >= 2
    /\ SP = m.ret.sp
    /\ CallerWords # {}


(***************************************************************************)
(* Call argument lists: the sources f ( t1 ... tn ) where every ti is an   *)
(* identifier, a number or a comma.                                        *)
(***************************************************************************)
MaxListToks == 4

ListKinds == {"id", "num", "comma"}

ListTok(k, kind) == IF kind = "comma" THEN Tok("TOK_COMMA") ELSE OperandTok(k, kind)

ListSource(items) ==
    <<TokIdent("f"), Tok("TOK_LPAREN")>> \o [k \in 1..Len(items) |-> ListTok(k, items[k])]
        \o <<Tok("TOK_RPAREN"), Tok("TOK_EOF")>>

InitList ==
    /\ phase = "start"
    /\ \E n \in 0..MaxListToks : \E items \in [1..n -> ListKinds] : src = ListSource(items)
    /\ tree = NULL
    /\ c = NoCompiler
    /\ fi = 0
    /\ m = NoMachine
    /\ calls = <<>>

SpecList == InitList /\ [][NextParse]_vars

\* the token types between the parentheses of the call
ArgToks == [k \in 1..(Len(src) - 4) |-> src[k + 2].type]

\* e , e , ... , e  with n >= 1 expressions
Separated(ts) ==
    /\ Len(ts) % 2 = 1
    /\ \A k \in 1..Len(ts) : (ts[k] = "TOK_COMMA") <=> (k % 2 = 0)

\* e , e , ... , e ,
TrailingComma(ts) ==
    /\ Len(ts) >= 2
    /\ ts[Len(ts)] = "TOK_COMMA"
    /\ Separated(SubSeq(ts, 1, Len(ts) - 1))

\* C11: a call whose argument list ends in a comma, as in f(a,), is rejected
\* with the fatal error; the empty list f() and the lists e, ..., e without a
\* trailing comma are accepted, with one argument per expression.
C11_TrailingCommaRejected ==
    phase = "parsed" =>
        /\ TrailingComma(ArgToks) => ~tree.ok
        /\ ArgToks = <<>> => tree.ok /\ tree.node = AstCall("f", <<>>)
        /\ Separated(ArgToks) =>
              tree.ok /\ tree.node.type = "AST_CALL"
                      /\ Len(tree.node.args) = (Len(ArgToks) + 1) \div 2

\* what the loop of parse_primary does: a comma directly before the closing
\* parenthesis is consumed and the list is accepted without it
C11_TrailingCommaAccepted ==
    phase = "parsed" /\ TrailingComma(ArgToks) =>
        tree.ok /\ tree.node.type = "AST_CALL" /\ Len(tree.node.args) = Len(ArgToks) \div 2

\* every other malformed list is rejected
C11_OtherListsRejected ==
    phase = "parsed" /\ ArgToks # <<>> /\ ~Separated(ArgToks) /\ ~TrailingComma(ArgToks) =>
        ~tree.ok


(***************************************************************************)
(* SpecExit: int g(int n) { body }  int main(int a) { g(a); return 7; }    *)
(* where body is a list of statements with and without return, entered     *)
(* with a = 0 and a = 1.                                                   *)
(***************************************************************************)
MaxExitStmts == 2

ExitStmts ==
    {AstReturn(AstVar("n")),
     AstReturn(NULL),
     AstIf(AstVar("n"), AstReturn(AstNum(1)), NULL),
     AstIf(AstVar("n"), AstBlock(<<AstReturn(AstNum(1))>>), AstBlock(<<AstReturn(AstNum(2))>>)),
     AstWhile(AstVar("n"), AstBlock(<<AstReturn(AstNum(3))>>)),
     AstAssign(AstVar("n"), AstBinop("TOK_PLUS", AstVar("n"), AstNum(1)), 0)}

ExitProgram(body) ==
    AstProgram(<<>>,
               <<AstFunc("g", <<"n">>, AstBlock(body), FALSE),
                 AstFunc("main", <<"a">>,
                         AstBlock(<<AstCall("g", <<AstVar("a")>>), AstReturn(AstNum(7))>>),
                         FALSE)>>)

InitExit ==
    /\ InitRun
    /\ \E n \in 0..MaxExitStmts : \E body \in [1..n -> ExitStmts] : \E a \in {0, 1}, t \in Targets :
          src = Run(ExitProgram(body), "main", <<a>>, t, [body |-> body])

SpecExit == InitExit /\ [][NextRun]_vars

RECURSIVE ReturnsIn(_)
RECURSIVE ReturnsInAll(_, _)
\* the number of return statements of a statement
ReturnsIn(node) ==
    CASE node.type = "AST_RETURN" -> 1
      [] node.type = "AST_IF" -> ReturnsIn(node.then_branch) + ReturnsIn(node.else_branch)
      [] node.type = "AST_WHILE" -> ReturnsIn(node.body)
      [] node.type = "AST_FOR" -> ReturnsIn(node.body)
      [] node.type = "AST_BLOCK" -> ReturnsInAll(node.stmts, 1)
      [] OTHER -> 0

ReturnsInAll(stmts, i) ==
    IF i > Len(stmts) THEN 0 ELSE ReturnsIn(stmts[i]) + ReturnsInAll(stmts, i + 1)

Epilogue(is_arm64) == IF is_arm64 THEN ArmEpilogue ELSE X64Epilogue

\* the same instruction; the operands of one opcode are of one kind
SameIns(x, y) == x.op = y.op /\ x.a = y.a /\ x.b = y.b /\ x.c = y.c

\* lines k - 2 .. k of the output are the epilogue sequence
EpilogueAt(out, k, is_arm64) ==
    k >= 3 /\ \A j \in 1..3 : SameIns(out[k - 3 + j], Epilogue(is_arm64)[j])

\* the line that ends the code of the function whose label is at line k
EndOf(out, k) == CHOOSE e \in k..Len(out) : out[e].op = "blank" /\ \A j \in k..(e - 1) : out[j].op # "blank"

\* the text of every function ends with the epilogue, and the text holds one
\* epilogue per return statement besides
EpiloguesEmitted(cs, prog) ==
    /\ \A f \in 1..Len(prog.funcs) :
          \E k \in 1..Len(cs.out) :
              /\ SameIns(cs.out[k], I("label", FuncLabel(cs, prog.funcs[f].name), 0, 0))
              /\ EpilogueAt(cs.out, EndOf(cs.out, k) - 1, cs.is_arm64)
    /\ \A k \in 1..Len(cs.out) : IsRet(cs.out[k]) => EpilogueAt(cs.out, k, cs.is_arm64)
    /\ Cardinality({k \in 1..Len(cs.out) : IsRet(cs.out[k])})
          = Len(prog.funcs) + ReturnsInAll([f \in 1..Len(prog.funcs) |-> prog.funcs[f].body], 1)

\* a step of the generated code reaches the second and the third instruction
\* of an epilogue only from the instruction before it, and never runs into
\* the end of a function's text
ThroughEpilogue ==
    phase = "run" /\ m'.status = "run" =>
        /\ m'.pc <= Len(c.out)
        /\ c.out[m'.pc].op \notin {"blank", "globl", "p2align", "section"}
        /\ \A j \in 2..3 :
              SameIns(c.out[m'.pc], Epilogue(c.is_arm64)[j]) =>
                  m'.pc = m.pc + 1 /\ SameIns(c.out[m.pc], Epilogue(c.is_arm64)[j - 1])

\* C12: the code of every function ends with the epilogue (restore the stack
\* pointer from the frame pointer, restore the saved frame pointer and return
\* address, return), every return statement emits the same sequence, and
\* every execution that leaves a function runs through a whole epilogue, also
\* when the body has no return.
C12_EpilogueOnEveryExit ==
    [][/\ phase' = "compiled" => EpiloguesEmitted(c', src.prog)
       /\ ThroughEpilogue
       /\ phase' = "run" => m'.status \in {"run", "halt"}]_vars

\* main has returned 7 after a call of a g that has statements but no return
C12_Witness ==
    /\ Halted
    /\ Acc = 7
    /\ src.test.body # <<>>
    /\ ReturnsInAll(src.test.body, 1) = 0


(***************************************************************************)
(* The lexer over the bytes of the source buffer.  mem is the buffer and   *)
(* what the memory holds behind it: the text, its terminating NUL, and the *)
(* mapped bytes that follow; a byte is a string of one character and NUL   *)
(* is the empty string.  pos counts from 0 as in the source.               *)
(***************************************************************************)
NUL == ""

\* what a read outside of the mapped bytes gives: the process is killed
Unmapped == "UNMAPPED"

Letters == {"a", "b", "c", "d", "e", "f", "g", "h", "i", "j", "k", "l", "m", "n", "o", "p",
            "q", "r", "s", "t", "u", "v", "w", "x", "y", "z", "A", "B", "C", "X", "Y", "Z"}

Digits == {"0", "1", "2", "3", "4", "5", "6", "7", "8", "9"}

DigitVal(ch) == CHOOSE d \in 0..9 : ToString(d) = ch

NoToken == [type |-> "NONE", str |-> NUL, num |-> 0, line |-> 0, col |-> 0, start |-> 0]

\* the lexer fields of the Compiler as parse_only and compile set them;
\* cur.start is the offset at which next_token recorded cur.line and cur.col
Lexer(mem) ==
    [mem |-> mem, pos |-> 0, line |-> 1, col |-> 1, cur |-> NoToken, status |-> "ok"]

ByteAt(L, p) == IF p < Len(L.mem) THEN L.mem[p + 1] ELSE Unmapped

peek(L) == ByteAt(L, L.pos)

\* advance() that counts a newline as any other byte
advance_flat(L) ==
    IF L.status # "ok" THEN L
    ELSE IF peek(L) = Unmapped THEN [L EXCEPT !.status = "segv"]
    ELSE [L EXCEPT !.pos = @ + 1, !.col = @ + 1]

advance(L) ==
    IF L.status # "ok" THEN L
    ELSE IF peek(L) = Unmapped THEN [L EXCEPT !.status = "segv"]
    ELSE [L EXCEPT !.pos = @ + 1,
                   !.line = IF peek(L) = "\n" THEN @ + 1 ELSE @,
                   !.col = IF peek(L) = "\n" THEN 1 ELSE @ + 1]

RECURSIVE skip_line_comment(_)
skip_line_comment(L) ==
    IF L.status = "ok" /\ peek(L) # NUL /\ peek(L) # "\n"
    THEN skip_line_comment(advance(L)) ELSE L

RECURSIVE skip_block_comment(_)
\* the inner loop of the multi-line comment, then the closing  */  if any
skip_block_comment(L) ==
    IF L.status = "ok" /\ peek(L) # NUL /\ ~(peek(L) = "*" /\ ByteAt(L, L.pos + 1) = "/")
    THEN skip_block_comment(advance(L))
    ELSE IF L.status = "ok" /\ peek(L) # NUL THEN advance(advance(L)) ELSE L

RECURSIVE skip_whitespace(_)
skip_whitespace(L) ==
    IF L.status # "ok" THEN L
    ELSE IF peek(L) \in {" ", "\t", "\n", "\r"} THEN skip_whitespace(advance(L))
    ELSE IF peek(L) = "/" /\ ByteAt(L, L.pos + 1) = "/"
    THEN skip_whitespace(skip_line_comment(L))
    ELSE IF peek(L) = "/" /\ ByteAt(L, L.pos + 1) = "*"
    THEN skip_whitespace(skip_block_comment(advance(advance(L))))
    ELSE L

Keyword(s) ==
    CASE s = "int" -> "TOK_INT"
      [] s = "void" -> "TOK_VOID"
      [] s = "if" -> "TOK_IF"
      [] s = "else" -> "TOK_ELSE"
      [] s = "while" -> "TOK_WHILE"
      [] s = "for" -> "TOK_FOR"
      [] s = "return" -> "TOK_RETURN"
      [] OTHER -> "TOK_IDENT"

RECURSIVE CString(_, _)
\* strncpy: the bytes up to the first NUL
CString(bytes, i) ==
    IF i > Len(bytes) \/ bytes[i] = NUL THEN "" ELSE bytes[i] \o CString(bytes, i + 1)

Produced(L, type) == IF L.status = "ok" THEN [L EXCEPT !.cur.type = type] ELSE L

RECURSIVE lex_ident(_, _)
lex_ident(L, start) ==
    IF peek(L) \in Letters \cup Digits \cup {"_"} THEN lex_ident(advance(L), start)
    ELSE [L EXCEPT !.cur.str = CString(SubSeq(L.mem, start + 1, L.pos), 1),
                   !.cur.type = Keyword(CString(SubSeq(L.mem, start + 1, L.pos), 1))]

RECURSIVE lex_number(_)
lex_number(L) ==
    IF peek(L) \in Digits
    THEN lex_number([advance(L) EXCEPT
                        !.cur.num = Add32(Mul32(@, 10), DigitVal(peek(L)))])
    ELSE [L EXCEPT !.cur.type = "TOK_NUM"]

RECURSIVE lex_string(_, _)
\* L is behind the opening quote, at offset start
lex_string(L, start) ==
    IF L.status # "ok" THEN L
    ELSE IF peek(L) # NUL /\ peek(L) # "\""
    THEN lex_string(IF peek(L) = "\\" THEN advance(advance(L)) ELSE advance(L), start)
    ELSE IF peek(L) = "\""
    THEN Produced([advance(L) EXCEPT !.cur.str = CString(SubSeq(L.mem, start + 1, L.pos), 1)],
                  "TOK_STR")
    ELSE [L EXCEPT !.cur.str = CString(SubSeq(L.mem, start + 1, L.pos), 1),
                   !.cur.type = "TOK_STR"]

\* one or two bytes: ch, already consumed, followed by second gives two, else one
\* an operator byte that is never joined with the byte behind it
OneByte(L, second, two, one) == Produced(L, one)

\* if (peek(c) == second) { advance(c); type = two; } else type = one;
TwoByte(L, second, two, one) ==
    IF peek(L) = second THEN Produced(advance(L), two) ELSE Produced(L, one)

\* the switch of next_token; L is behind ch
lex_operator(L, ch) ==
    CASE ch = "+" -> IF peek(L) = "+" THEN Produced(advance(L), "TOK_PLUSPLUS")
                     ELSE TwoByte(L, "=", "TOK_PLUSEQ", "TOK_PLUS")
      [] ch = "-" -> IF peek(L) = "-" THEN Produced(advance(L), "TOK_MINUSMINUS")
                     ELSE TwoByte(L, "=", "TOK_MINUSEQ", "TOK_MINUS")
      [] ch = "*" -> Produced(L, "TOK_STAR")
      [] ch = "/" -> Produced(L, "TOK_SLASH")
      [] ch = "%" -> Produced(L, "TOK_PERCENT")
      [] ch = "=" -> TwoByte(L, "=", "TOK_EQ", "TOK_ASSIGN")
      [] ch = "!" -> TwoByte(L, "=", "TOK_NE", "TOK_NOT")
      [] ch = "<" -> TwoByte(L, "=", "TOK_LE", "TOK_LT")
      [] ch = ">" -> TwoByte(L, "=", "TOK_GE", "TOK_GT")
      [] ch = "&" -> TwoByte(L, "&", "TOK_AND", "TOK_AMP")
      [] ch = "|" -> IF peek(L) = "|" THEN Produced(advance(L), "TOK_OR")
                     ELSE [L EXCEPT !.status = "error"]
      [] ch = "(" -> Produced(L, "TOK_LPAREN")
      [] ch = ")" -> Produced(L, "TOK_RPAREN")
      [] ch = "{" -> Produced(L, "TOK_LBRACE")
      [] ch = "}" -> Produced(L, "TOK_RBRACE")
      [] ch = "[" -> Produced(L, "TOK_LBRACKET")
      [] ch = "]" -> Produced(L, "TOK_RBRACKET")
      [] ch = ";" -> Produced(L, "TOK_SEMI")
      [] ch = "," -> Produced(L, "TOK_COMMA")
      [] OTHER -> [L EXCEPT !.status = "error"]

\* next_token() behind skip_whitespace()
scan_token(L) ==
    IF L.status # "ok" THEN L
    ELSE IF peek(L) = Unmapped THEN [L EXCEPT !.status = "segv"]
    ELSE IF peek(L) = NUL THEN [L EXCEPT !.cur.type = "TOK_EOF"]
    ELSE IF peek(L) \in Letters \cup {"_"} THEN lex_ident(L, L.pos)
    ELSE IF peek(L) \in Digits THEN lex_number([L EXCEPT !.cur.num = 0])
    ELSE IF peek(L) = "\"" THEN lex_string(advance(L), L.pos + 1)
    ELSE lex_operator(advance(L), peek(L))

record_position(L) ==
    [L EXCEPT !.cur.line = L.line, !.cur.col = L.col, !.cur.start = L.pos]

\* next_token() of the lexer
lex_next_token(L) == scan_token(record_position(skip_whitespace(L)))


(***************************************************************************)
(* SpecLex: every text of at most MaxSrcLen bytes out of SrcChars, in a    *)
(* buffer followed by nothing mapped, by a NUL, or by a quote and a NUL;   *)
(* NextToken is one call of next_token().                                  *)
(***************************************************************************)
MaxSrcLen == 4

SrcChars == {"a", "1", " ", "\n", "/", "*", "\"", "\\"}

BehindBuffer == {<<>>, <<NUL>>, <<"\"", NUL>>}

InitLex ==
    /\ phase = "start"
    /\ \E n \in 0..MaxSrcLen : \E text \in [1..n -> SrcChars] : \E junk \in BehindBuffer :
          src = [text |-> text, mem |-> text \o <<NUL>> \o junk]
    /\ tree = NULL
    /\ c = NoCompiler
    /\ fi = 0
    /\ m = NoMachine
    /\ calls = <<>>

NextToken ==
    /\ phase \in {"start", "lex"}
    /\ phase = "lex" => c.status = "ok" /\ c.cur.type # "TOK_EOF"
    /\ c' = lex_next_token(IF phase = "start" THEN Lexer(src.mem) ELSE c)
    /\ phase' = "lex"
    /\ UNCHANGED <<src, tree, fi, m, calls>>

NextLex == NextToken

SpecLex == InitLex /\ [][NextLex]_vars

\* a token has been produced
TokenProduced == phase = "lex" /\ c.status = "ok"

\* the newlines among the first n bytes of the buffer
NewlinesBefore(n) == {j \in 1..n : src.mem[j] = "\n"}

\* the index of the last newline among the first n bytes, 0 if there is none
LastNewlineBefore(n) ==
    IF NewlinesBefore(n) = {} THEN 0
    ELSE CHOOSE j \in NewlinesBefore(n) : \A k \in NewlinesBefore(n) : k <= j

\* the bytes a token of the type can begin with
FirstBytes(type) ==
    CASE type \in {"TOK_IDENT", "TOK_INT", "TOK_VOID", "TOK_IF", "TOK_ELSE", "TOK_WHILE",
                   "TOK_FOR", "TOK_RETURN"} -> Letters \cup {"_"}
      [] type = "TOK_NUM" -> Digits
      [] type = "TOK_STR" -> {"\""}
      [] type = "TOK_EOF" -> {NUL}
      [] type = "TOK_SLASH" -> {"/"}
      [] type = "TOK_STAR" -> {"*"}
      [] OTHER -> {"+", "-", "%", "=", "!", "<", ">", "&", "|", "(", ")", "{", "}", "[", "]",
                   ";", ","}

\* C13: for every token the lexer produces, the recorded line is 1 plus the
\* number of newlines before the token's first byte, newlines in skipped
\* whitespace, comments and earlier string literals included, and the
\* recorded column is 1 plus the number of bytes between the last preceding
\* newline and the token's first byte.
C13_TokenPosition ==
    TokenProduced /\ c.cur.start <= Len(src.text) =>
        /\ src.mem[c.cur.start + 1] \in FirstBytes(c.cur.type)
        /\ c.cur.start < c.pos \/ c.cur.type = "TOK_EOF"
        /\ c.cur.line = 1 + Cardinality(NewlinesBefore(c.cur.start))
        /\ c.cur.col = 1 + (c.cur.start - LastNewlineBefore(c.cur.start))

\* an identifier on the second line, behind a string literal that holds the
\* newline
C13_Witness ==
    /\ TokenProduced
    /\ c.cur.type = "TOK_IDENT"
    /\ c.cur.line = 2
    /\ c.cur.col = 2
    /\ src.text[1] = "\""

\* C20: the byte position of the lexer never moves past the terminating NUL
\* of the source buffer, whatever the text ends in: after any sequence of
\* next_token calls pos is at most the length of the source.
C20_PosWithinBuffer ==
    phase = "lex" => c.pos <= Len(src.text)

\* pos passes the NUL only behind a backslash that is the last byte of an
\* unterminated string literal
C20_OnlyBehindBackslash ==
    phase = "lex" /\ c.pos > Len(src.text) =>
        /\ Len(src.text) >= 2
        /\ src.text[Len(src.text)] = "\\"
        /\ \E j \in 1..(Len(src.text) - 1) : src.text[j] = "\""


(***************************************************************************)
(* SpecScope: the declarations                                             *)
(*     int g = 42;                                                         *)
(*     int h(..) { .. }       with a local g, a parameter g, or neither    *)
(*     int user() { g = g + 1; return g; }                                 *)
(*     int main(int a) { h(a); return user(); }                            *)
(* in every order of the source file.                                      *)
(***************************************************************************)
ShadowKinds == {"local", "param", "none"}

GlobalG == AstVardecl("g", AstNum(42), FALSE, 0)

PlusOne(name) == AstAssign(AstVar(name), AstBinop("TOK_PLUS", AstVar(name), AstNum(1)), 0)

Shadower(kind) ==
    CASE kind = "local" ->
            AstFunc("h", <<"p">>,
                    AstBlock(<<AstVardecl("g", AstVar("p"), FALSE, 0), PlusOne("g"),
                               AstReturn(AstVar("g"))>>), FALSE)
      [] kind = "param" ->
            AstFunc("h", <<"g">>, AstBlock(<<PlusOne("g"), AstReturn(AstVar("g"))>>), FALSE)
      [] kind = "none" ->
            AstFunc("h", <<"p">>, AstBlock(<<AstReturn(AstVar("p"))>>), FALSE)

User == AstFunc("user", <<>>, AstBlock(<<PlusOne("g"), AstReturn(AstVar("g"))>>), FALSE)

ScopeMain ==
    AstFunc("main", <<"a">>,
            AstBlock(<<AstCall("h", <<AstVar("a")>>), AstReturn(AstCall("user", <<>>))>>),
            FALSE)

\* the two lists do_parse_program appends the declarations of the file to
Collected(decls) ==
    AstProgram(SelectSeq(decls, LAMBDA d : d.type = "AST_VARDECL"),
               SelectSeq(decls, LAMBDA d : d.type = "AST_FUNC"))

InitScope ==
    /\ InitRun
    /\ \E kind \in ShadowKinds, a \in {0, 7}, t \in Targets :
          \E order \in [1..4 -> 1..4] :
              /\ \A i, j \in 1..4 : order[i] = order[j] => i = j
              /\ src = Run(Collected([k \in 1..4 |->
                                         <<GlobalG, Shadower(kind), User, ScopeMain>>[order[k]]]),
                           "main", <<a>>, t, [kind |-> kind, order |-> order])

SpecScope == InitScope /\ [][NextRun]_vars

\* the lines of the output that are the code of function name
TextOf(cs, name) ==
    LabelIndex(cs.out, FuncLabel(cs, name))
        .. EndOf(cs.out, LabelIndex(cs.out, FuncLabel(cs, name)))

\* an access to a slot of the frame
FrameAccess(ins) ==
    \/ ins.op \in {"ldr", "str"} /\ ins.b = "x29"
    \/ ins.op = "movl_ld" /\ ins.b = "rbp"
    \/ ins.op = "movl_st" /\ ins.c = "rbp"

\* a load from the label of global name
GlobalLoad(cs, k, name) ==
    \/ /\ cs.out[k].op = "adrp" /\ cs.out[k].b = "_" \o name
       /\ cs.out[k + 2].op = "ldr" /\ cs.out[k + 2].b = cs.out[k].a
    \/ cs.out[k].op = "movl_rip" /\ cs.out[k].a = sym_prefix(cs) \o name

\* the references of the AArch64 back-end link on macOS only
Links14 == ~(src.is_arm64 /\ src.is_linux)

\* C14: in a function that does not redeclare it, the name of a global
\* resolves to the global entry, whatever the order of the declarations in
\* the file and also behind a function that declared a local or a parameter
\* of the same name: user() reads and writes the label of g, never a slot of
\* the frame, and main returns 43.
C14_GlobalInEveryFunction ==
    /\ phase \in {"compiled", "run"} =>
          /\ c.nsymbols = 1 /\ c.symbols[1].is_global /\ c.symbols[1].name = "g"
          /\ \A k \in TextOf(c, "user") : ~FrameAccess(c.out[k])
          /\ \E k \in TextOf(c, "user") : GlobalLoad(c, k, "g")
    /\ Links14 => NoFault
    /\ Links14 /\ Halted =>
          Acc = 43 /\ m.mem[SymAddr(c.out, Prefix(c) \o "g")] = 43

\* user() has returned 43 to main, in a file where h with its own g comes
\* before user and the global after both
C14_Witness ==
    /\ Halted
    /\ Acc = 43
    /\ src.test.kind \in {"local", "param"}
    /\ src.prog.funcs[1].name = "h"
    /\ src.test.order[4] = 1


(***************************************************************************)
(* The AST serializer.  The output is the text ast_to_json prints.         *)
(***************************************************************************)
ast_type_name(type) ==
    CASE type = "AST_NUM" -> "NumLiteral"
      [] type = "AST_STR" -> "StringLiteral"
      [] type = "AST_VAR" -> "Variable"
      [] type = "AST_BINOP" -> "BinaryOp"
      [] type = "AST_UNOP" -> "UnaryOp"
      [] type = "AST_ASSIGN" -> "Assignment"
      [] type = "AST_CALL" -> "FunctionCall"
      [] type = "AST_IF" -> "IfStatement"
      [] type = "AST_WHILE" -> "WhileLoop"
      [] type = "AST_FOR" -> "ForLoop"
      [] type = "AST_RETURN" -> "ReturnStatement"
      [] type = "AST_BLOCK" -> "Block"
      [] type = "AST_FUNC" -> "FunctionDecl"
      [] type = "AST_VARDECL" -> "VarDecl"
      [] type = "AST_PROGRAM" -> "Program"
      [] type = "AST_ARRAY_ACCESS" -> "ArrayAccess"
      [] type = "AST_ADDR" -> "AddressOf"
      [] OTHER -> "Unknown"

op_to_string(op) ==
    CASE op = "TOK_PLUS" -> "+"
      [] op = "TOK_MINUS" -> "-"
      [] op = "TOK_STAR" -> "*"
      [] op = "TOK_SLASH" -> "/"
      [] op = "TOK_PERCENT" -> "%"
      [] op = "TOK_EQ" -> "=="
      [] op = "TOK_NE" -> "!="
      [] op = "TOK_LT" -> "<"
      [] op = "TOK_GT" -> ">"
      [] op = "TOK_LE" -> "<="
      [] op = "TOK_GE" -> ">="
      [] op = "TOK_AND" -> "&&"
      [] op = "TOK_OR" -> "||"
      [] op = "TOK_NOT" -> "!"
      [] OTHER -> "?"

RECURSIVE print_indent(_)
print_indent(indent) == IF indent <= 0 THEN "" ELSE "  " \o print_indent(indent - 1)

MaxStrLen == 2

StrChars == {"a", "n", "\"", "\\", "\n", "\t"}

\* the bytes of a C string
BytesOf(str) ==
    CHOOSE b \in UNION {[1..n -> StrChars] : n \in 0..MaxStrLen} : CString(b, 1) = str

\* the switch of print_json_string without the case of the backslash
json_escape_plain(ch) ==
    CASE ch = "\"" -> "\\\""
      [] ch = "\n" -> "\\n"
      [] ch = "\r" -> "\\r"
      [] ch = "\t" -> "\\t"
      [] OTHER -> ch

json_escape(ch) ==
    CASE ch = "\"" -> "\\\""
      [] ch = "\\" -> "\\\\"
      [] ch = "\n" -> "\\n"
      [] ch = "\r" -> "\\r"
      [] ch = "\t" -> "\\t"
      [] OTHER -> ch

RECURSIVE json_escape_from(_, _)
json_escape_from(bytes, i) ==
    IF i > Len(bytes) THEN "" ELSE json_escape(bytes[i]) \o json_escape_from(bytes, i + 1)

print_json_string(str) == "\"" \o json_escape_from(BytesOf(str), 1) \o "\""

\* ",\n", the indentation, and the key of the next field
json_key(indent, key) == ",\n" \o print_indent(indent + 1) \o "\"" \o key \o "\": "

\* a name, printed with %s between quotes
json_name(str) == "\"" \o str \o "\""

RECURSIVE json_items(_, _, _)
\* the lines of a nonempty array; items are the printed elements
json_items(items, indent, i) ==
    IF i > Len(items) THEN ""
    ELSE print_indent(indent + 2) \o items[i] \o (IF i < Len(items) THEN "," ELSE "") \o "\n"
            \o json_items(items, indent, i + 1)

json_array(items, indent) ==
    "[" \o (IF Len(items) > 0
            THEN "\n" \o json_items(items, indent, 1) \o print_indent(indent + 1)
            ELSE "") \o "]"

assign_op_string(op) == IF op = PlusChar THEN "+=" ELSE IF op = MinusChar THEN "-=" ELSE "="

RECURSIVE ast_to_json(_, _)
RECURSIVE json_fields(_, _)
json_children(nodes, indent) ==
    json_array([k \in 1..Len(nodes) |-> ast_to_json(nodes[k], indent + 2)], indent)

\* the switch of ast_to_json
json_fields(node, indent) ==
    CASE node.type = "AST_NUM" -> json_key(indent, "value") \o ToString(node.num)
      [] node.type = "AST_STR" -> json_key(indent, "value") \o print_json_string(node.str)
      [] node.type = "AST_VAR" -> json_key(indent, "name") \o json_name(node.str)
      [] node.type = "AST_BINOP" ->
            json_key(indent, "operator") \o json_name(op_to_string(node.op))
            \o json_key(indent, "left") \o ast_to_json(node.left, indent + 1)
            \o json_key(indent, "right") \o ast_to_json(node.right, indent + 1)
      [] node.type = "AST_UNOP" ->
            json_key(indent, "operator") \o json_name(op_to_string(node.op))
            \o json_key(indent, "operand") \o ast_to_json(node.operand, indent + 1)
      [] node.type = "AST_ASSIGN" ->
            json_key(indent, "operator") \o json_name(assign_op_string(node.op))
            \o json_key(indent, "left") \o ast_to_json(node.left, indent + 1)
            \o json_key(indent, "right") \o ast_to_json(node.right, indent + 1)
      [] node.type = "AST_CALL" ->
            json_key(indent, "name") \o json_name(node.name)
            \o json_key(indent, "arguments") \o json_children(node.args, indent)
      [] node.type = "AST_IF" ->
            json_key(indent, "condition") \o ast_to_json(node.cond, indent + 1)
            \o json_key(indent, "then") \o ast_to_json(node.then_branch, indent + 1)
            \o json_key(indent, "else") \o ast_to_json(node.else_branch, indent + 1)
      [] node.type = "AST_WHILE" ->
            json_key(indent, "condition") \o ast_to_json(node.cond, indent + 1)
            \o json_key(indent, "body") \o ast_to_json(node.body, indent + 1)
      [] node.type = "AST_FOR" ->
            json_key(indent, "init") \o ast_to_json(node.init, indent + 1)
            \o json_key(indent, "condition") \o ast_to_json(node.cond, indent + 1)
            \o json_key(indent, "update") \o ast_to_json(node.update, indent + 1)
            \o json_key(indent, "body") \o ast_to_json(node.body, indent + 1)
      [] node.type = "AST_RETURN" ->
            json_key(indent, "value") \o ast_to_json(node.value, indent + 1)
      [] node.type = "AST_BLOCK" ->
            json_key(indent, "statements") \o json_children(node.stmts, indent)
      [] node.type = "AST_FUNC" ->
            json_key(indent, "name") \o json_name(node.name)
            \o json_key(indent, "returnType")
            \o json_name(IF node.is_void THEN "void" ELSE "int")
            \o json_key(indent, "parameters")
            \o json_array([k \in 1..Len(node.params) |-> json_name(node.params[k])], indent)
            \o json_key(indent, "body") \o ast_to_json(node.body, indent + 1)
      [] node.type = "AST_VARDECL" ->
            json_key(indent, "name") \o json_name(node.name)
            \o json_key(indent, "isArray") \o (IF node.is_array THEN "true" ELSE "false")
            \o (IF node.is_array
                THEN json_key(indent, "arraySize") \o ToString(node.array_size) ELSE "")
            \o json_key(indent, "initializer") \o ast_to_json(node.init, indent + 1)
      [] node.type = "AST_PROGRAM" ->
            json_key(indent, "globals") \o json_children(node.globals, indent)
            \o json_key(indent, "functions") \o json_children(node.funcs, indent)
      [] node.type = "AST_ARRAY_ACCESS" ->
            json_key(indent, "name") \o json_name(node.name)
            \o json_key(indent, "index") \o ast_to_json(node.index, indent + 1)
      [] node.type = "AST_ADDR" -> json_key(indent, "name") \o json_name(node.name)

ast_to_json(node, indent) ==
    IF node.type = "NULL" THEN "null"
    ELSE "{\n" \o print_indent(indent + 1) \o "\"type\": "
            \o json_name(ast_type_name(node.type))
            \o json_fields(node, indent) \o "\n" \o print_indent(indent) \o "}"


(***************************************************************************)
(* SpecDump: two trees of the shapes the parser builds are serialized.     *)
(* A tree is built from a code: the node kind, the operator, the choice of *)
(* the children among a few leaves, and the optional children present.     *)
(***************************************************************************)
MaxChildren == 2

\* string literals hold the bytes of the source between the quotes
JsonLeaves ==
    <<AstNum(0), AstNum(7), AstVar("a"), AstVar("b"), AstAddr("a"), AstStr("a"), AstStr("n"),
      AstStr("\\n"), AstStr("\n"), AstStr("\\\""), AstStr("\\\\"), AstStr("\t")>>

JsonBinaryOps ==
    <<"TOK_PLUS", "TOK_MINUS", "TOK_STAR", "TOK_SLASH", "TOK_PERCENT", "TOK_EQ", "TOK_NE",
      "TOK_LT", "TOK_GT", "TOK_LE", "TOK_GE", "TOK_AND", "TOK_OR">>

JsonStmts ==
    <<AstReturn(NULL), AstReturn(AstNum(0)), AstBlock(<<>>), AstVar("a"),
      AstVardecl("a", NULL, FALSE, 0)>>

\* 0 stands for the child that is absent
Opt(seq, i) == IF i = 0 THEN NULL ELSE seq[i]

Picks(seq, items) == [k \in 1..Len(items) |-> seq[items[k]]]

Lists(n) == UNION {[1..len -> 1..n] : len \in 0..MaxChildren}

JsonCodes ==
    [k : {"leaf"}, i : 1..Len(JsonLeaves)]
    \cup [k : {"binop"}, o : 1..Len(JsonBinaryOps), i : 1..3, j : 1..3]
    \cup [k : {"unop"}, o : {"TOK_MINUS", "TOK_NOT"}, i : 1..3]
    \cup [k : {"assign"}, o : {0, PlusChar, MinusChar}, i : 3..4, j : 1..3]
    \cup [k : {"call"}, name : {"a", "b"}, items : Lists(2)]
    \cup [k : {"index"}, name : {"a", "b"}, i : 1..3]
    \cup [k : {"if"}, i : 1..2, j : 1..2, el : 0..2]
    \cup [k : {"while"}, i : 1..2, j : 1..2]
    \cup [k : {"for"}, init : {0, 3, 5}, i : {0, 3}, j : {0, 3}, body : 1..2]
    \cup [k : {"block"}, items : Lists(3)]
    \cup [k : {"vardecl"}, name : {"a", "b"}, arr : {-1, 0, 7}, i : 0..1]
    \cup [k : {"func"}, name : {"a", "b"}, void : BOOLEAN, items : Lists(2), body : {3}]
    \cup [k : {"program"}, g : 0..2, f : 0..2]

JsonGlobals ==
    <<<<>>, <<AstVardecl("a", NULL, FALSE, 0)>>,
      <<AstVardecl("a", AstNum(7), FALSE, 0), AstVardecl("b", NULL, TRUE, 7)>>>>

JsonFuncs ==
    <<<<>>, <<AstFunc("a", <<>>, AstBlock(<<>>), TRUE)>>,
      <<AstFunc("a", <<"a">>, AstBlock(<<AstReturn(AstVar("a"))>>), FALSE),
        AstFunc("b", <<>>, AstBlock(<<>>), FALSE)>>>>

Build(code) ==
    CASE code.k = "leaf" -> JsonLeaves[code.i]
      [] code.k = "binop" ->
            AstBinop(JsonBinaryOps[code.o], JsonLeaves[code.i], JsonLeaves[code.j])
      [] code.k = "unop" -> AstUnop(code.o, JsonLeaves[code.i])
      [] code.k = "assign" -> AstAssign(JsonLeaves[code.i], JsonLeaves[code.j], code.o)
      [] code.k = "call" -> AstCall(code.name, Picks(JsonLeaves, code.items))
      [] code.k = "index" -> AstArrayAccess(code.name, JsonLeaves[code.i])
      [] code.k = "if" -> AstIf(JsonLeaves[code.i], JsonStmts[code.j], Opt(JsonStmts, code.el))
      [] code.k = "while" -> AstWhile(JsonLeaves[code.i], JsonStmts[code.j])
      [] code.k = "for" ->
            AstFor(IF code.init = 5 THEN JsonStmts[5] ELSE Opt(JsonLeaves, code.init),
                   Opt(JsonLeaves, code.i), Opt(JsonLeaves, code.j), JsonStmts[code.body])
      [] code.k = "block" -> AstBlock(Picks(JsonStmts, code.items))
      [] code.k = "vardecl" ->
            AstVardecl(code.name, Opt(JsonLeaves, code.i), code.arr >= 0,
                       IF code.arr >= 0 THEN code.arr ELSE 0)
      [] code.k = "func" ->
            AstFunc(code.name, Picks(<<"a", "b">>, code.items), JsonStmts[code.body], code.void)
      [] code.k = "program" -> AstProgram(JsonGlobals[code.g + 1], JsonFuncs[code.f + 1])

InitDump ==
    /\ phase = "start"
    /\ \E ca \in JsonCodes, cb \in JsonCodes : src = [a |-> Build(ca), b |-> Build(cb)]
    /\ tree = NULL
    /\ c = NoCompiler
    /\ fi = 0
    /\ m = NoMachine
    /\ calls = <<>>

\* --dump-ast, for either tree
DumpAst ==
    /\ phase = "start"
    /\ tree' = [a |-> ast_to_json(src.a, 0), b |-> ast_to_json(src.b, 0)]
    /\ phase' = "dumped"
    /\ UNCHANGED <<src, c, fi, m, calls>>

NextDump == DumpAst

SpecDump == InitDump /\ [][NextDump]_vars

RECURSIVE SameTree(_, _)
SameTrees(xs, ys) ==
    Len(xs) = Len(ys) /\ \A k \in 1..Len(xs) : SameTree(xs[k], ys[k])

\* the two trees are of one shape, with equal operators, names and values
SameTree(x, y) ==
    IF x.type # y.type THEN FALSE
    ELSE CASE x.type = "NULL" -> TRUE
           [] x.type = "AST_NUM" -> x.num = y.num
           [] x.type \in {"AST_STR", "AST_VAR"} -> x.str = y.str
           [] x.type \in {"AST_BINOP", "AST_ASSIGN"} ->
                 x.op = y.op /\ SameTree(x.left, y.left) /\ SameTree(x.right, y.right)
           [] x.type = "AST_UNOP" -> x.op = y.op /\ SameTree(x.operand, y.operand)
           [] x.type = "AST_CALL" -> x.name = y.name /\ SameTrees(x.args, y.args)
           [] x.type = "AST_ARRAY_ACCESS" -> x.name = y.name /\ SameTree(x.index, y.index)
           [] x.type = "AST_ADDR" -> x.name = y.name
           [] x.type = "AST_IF" ->
                 /\ SameTree(x.cond, y.cond)
                 /\ SameTree(x.then_branch, y.then_branch)
                 /\ SameTree(x.else_branch, y.else_branch)
           [] x.type = "AST_WHILE" -> SameTree(x.cond, y.cond) /\ SameTree(x.body, y.body)
           [] x.type = "AST_FOR" ->
                 /\ SameTree(x.init, y.init) /\ SameTree(x.cond, y.cond)
                 /\ SameTree(x.update, y.update) /\ SameTree(x.body, y.body)
           [] x.type = "AST_RETURN" -> SameTree(x.value, y.value)
           [] x.type = "AST_BLOCK" -> SameTrees(x.stmts, y.stmts)
           [] x.type = "AST_FUNC" ->
                 /\ x.name = y.name /\ x.is_void = y.is_void /\ x.params = y.params
                 /\ SameTree(x.body, y.body)
           [] x.type = "AST_VARDECL" ->
                 /\ x.name = y.name /\ x.is_array = y.is_array
                 /\ x.array_size = y.array_size /\ SameTree(x.init, y.init)
           [] x.type = "AST_PROGRAM" ->
                 SameTrees(x.globals, y.globals) /\ SameTrees(x.funcs, y.funcs)

\* C15: the serializer is a lossless image of the tree: two different trees
\* never serialize to the same text, so node kind, operator (also = += -=),
\* names, literal values, array flag and size, void flag and the presence of
\* each optional child can be read back from the text.
C15_SerializerInjective ==
    phase = "dumped" /\ tree.a = tree.b => SameTree(src.a, src.b)

\* the string literals "\n" (a backslash and n) and the one that holds a
\* newline byte have been serialized, to different texts
C15_Witness ==
    /\ phase = "dumped"
    /\ src.a.type = "AST_STR" /\ src.a.str = "\\n"
    /\ src.b.type = "AST_STR" /\ src.b.str = "\n"
    /\ tree.a # tree.b


(***************************************************************************)
(* Assignment targets, over the sources of SpecParse.                      *)
(***************************************************************************)
LValues == {"AST_VAR", "AST_ARRAY_ACCESS"}

RECURSIVE TargetsAreLValues(_)
\* the left child of every assignment node of the expression is an l-value
TargetsAreLValues(node) ==
    CASE node.type = "AST_ASSIGN" ->
            /\ node.left.type \in LValues
            /\ TargetsAreLValues(node.left)
            /\ TargetsAreLValues(node.right)
      [] node.type = "AST_BINOP" ->
            TargetsAreLValues(node.left) /\ TargetsAreLValues(node.right)
      [] node.type = "AST_UNOP" -> TargetsAreLValues(node.operand)
      [] node.type = "AST_CALL" ->
            \A k \in 1..Len(node.args) : TargetsAreLValues(node.args[k])
      [] node.type = "AST_ARRAY_ACCESS" -> TargetsAreLValues(node.index)
      [] OTHER -> TRUE

\* C16: every assignment node of an accepted source has a variable or an
\* array access as its left child; a source whose assignment target is
\* anything else, such as 1 = 2, is rejected with the fatal error.
C16_TargetsAreLValues ==
    phase = "parsed" /\ tree.ok => TargetsAreLValues(tree.node)

\* what parse_assignment does: whatever parse_logical_or returned becomes the
\* left child, so a source  x op y  with an assignment operator is accepted
\* for every pair of operands
C16_AnyTargetAccepted ==
    phase = "parsed" /\ Len(src) = 4 /\ src[2].type \in AssignOps =>
        /\ tree.ok
        /\ tree.node.type = "AST_ASSIGN"
        /\ tree.node.left = parse_primary(src, 1).node


(***************************************************************************)
(* Statements and top-level declarations.  The tokens are the values of    *)
(* c->cur after each call of next_token(): a token that has no text or no  *)
(* number of its own still holds the str and the num of an earlier one.    *)
(***************************************************************************)
RECURSIVE parse_stmt(_, _)
RECURSIVE parse_block_stmts(_, _, _)
RECURSIVE parse_params(_, _, _)
RECURSIVE do_parse_program_from(_, _, _, _)

\* the while loop of parse_block and the closing brace
parse_block_stmts(toks, i, stmts) ==
    IF toks[i].type = "TOK_RBRACE"
    THEN Parsed(AstBlock(stmts), next_token(toks, i))
    ELSE Then(parse_stmt(toks, i), LAMBDA st :
            parse_block_stmts(toks, st.pos, Append(stmts, st.node)))

parse_block(toks, i) ==
    ThenAt(expect(toks, i, "TOK_LBRACE"), LAMBDA j : parse_block_stmts(toks, j, <<>>))

\* an optional expression in front of the token type stop
parse_opt_expr(toks, i, stop) ==
    IF toks[i].type = stop THEN Parsed(NULL, i) ELSE parse_expr(toks, i)

\* = and the initializer, if any
parse_opt_init(toks, i) ==
    IF toks[i].type = "TOK_ASSIGN" THEN parse_expr(toks, next_token(toks, i))
    ELSE Parsed(NULL, i)

\* [ number ] behind the name of a declaration, if any; the node is the size
parse_opt_array(toks, i) ==
    IF toks[i].type # "TOK_LBRACKET" THEN Parsed([is_array |-> FALSE, array_size |-> 0], i)
    ELSE ThenAt(expect(toks, next_token(toks, i), "TOK_NUM"), LAMBDA j :
            ThenAt(expect(toks, j, "TOK_RBRACKET"), LAMBDA k :
                Parsed([is_array |-> TRUE, array_size |-> toks[next_token(toks, i)].num], k)))

\* the init clause of a for statement
parse_for_init(toks, i) ==
    IF toks[i].type = "TOK_INT"
    THEN ThenAt(expect(toks, next_token(toks, i), "TOK_IDENT"), LAMBDA j :
            Then(parse_opt_init(toks, j), LAMBDA in :
                Parsed(AstVardecl(toks[next_token(toks, i)].str, in.node, FALSE, 0), in.pos)))
    ELSE parse_opt_expr(toks, i, "TOK_SEMI")

parse_stmt(toks, i) ==
    CASE toks[i].type = "TOK_INT" ->
            ThenAt(expect(toks, next_token(toks, i), "TOK_IDENT"), LAMBDA j :
                Then(parse_opt_array(toks, j), LAMBDA arr :
                    Then(parse_opt_init(toks, arr.pos), LAMBDA in :
                        ThenAt(expect(toks, in.pos, "TOK_SEMI"), LAMBDA k :
                            Parsed(AstVardecl(toks[next_token(toks, i)].str, in.node,
                                              arr.node.is_array, arr.node.array_size), k)))))
      [] toks[i].type = "TOK_IF" ->
            ThenAt(expect(toks, next_token(toks, i), "TOK_LPAREN"), LAMBDA j :
                Then(parse_expr(toks, j), LAMBDA cond :
                    ThenAt(expect(toks, cond.pos, "TOK_RPAREN"), LAMBDA k :
                        Then(parse_stmt(toks, k), LAMBDA th :
                            IF toks[th.pos].type = "TOK_ELSE"
                            THEN Then(parse_stmt(toks, next_token(toks, th.pos)), LAMBDA el :
                                    Parsed(AstIf(cond.node, th.node, el.node), el.pos))
                            ELSE Parsed(AstIf(cond.node, th.node, NULL), th.pos)))))
      [] toks[i].type = "TOK_WHILE" ->
            ThenAt(expect(toks, next_token(toks, i), "TOK_LPAREN"), LAMBDA j :
                Then(parse_expr(toks, j), LAMBDA cond :
                    ThenAt(expect(toks, cond.pos, "TOK_RPAREN"), LAMBDA k :
                        Then(parse_stmt(toks, k), LAMBDA body :
                            Parsed(AstWhile(cond.node, body.node), body.pos)))))
      [] toks[i].type = "TOK_FOR" ->
            ThenAt(expect(toks, next_token(toks, i), "TOK_LPAREN"), LAMBDA j :
                Then(parse_for_init(toks, j), LAMBDA in :
                    ThenAt(expect(toks, in.pos, "TOK_SEMI"), LAMBDA k :
                        Then(parse_opt_expr(toks, k, "TOK_SEMI"), LAMBDA cond :
                            ThenAt(expect(toks, cond.pos, "TOK_SEMI"), LAMBDA l :
                                Then(parse_opt_expr(toks, l, "TOK_RPAREN"), LAMBDA up :
                                    ThenAt(expect(toks, up.pos, "TOK_RPAREN"), LAMBDA n :
                                        Then(parse_stmt(toks, n), LAMBDA body :
                                            Parsed(AstFor(in.node, cond.node, up.node,
                                                          body.node), body.pos)))))))))
      [] toks[i].type = "TOK_RETURN" ->
            Then(parse_opt_expr(toks, next_token(toks, i), "TOK_SEMI"), LAMBDA v :
                ThenAt(expect(toks, v.pos, "TOK_SEMI"), LAMBDA k :
                    Parsed(AstReturn(v.node), k)))
      [] toks[i].type = "TOK_LBRACE" -> parse_block(toks, i)
      [] OTHER ->
            Then(parse_expr(toks, i), LAMBDA e :
                ThenAt(expect(toks, e.pos, "TOK_SEMI"), LAMBDA k : Parsed(e.node, k)))

\* the parameter loop of do_parse_program; the node is the list of names
parse_params(toks, i, params) ==
    IF toks[i].type = "TOK_RPAREN" THEN Parsed(params, i)
    ELSE ThenAt(expect(toks, IF toks[i].type = "TOK_INT" THEN next_token(toks, i) ELSE i,
                       "TOK_IDENT"), LAMBDA j :
            IF toks[j].type # "TOK_RPAREN"
            THEN ThenAt(expect(toks, j, "TOK_COMMA"), LAMBDA k :
                    parse_params(toks, k, Append(params, toks[j - 1].str)))
            ELSE parse_params(toks, j, Append(params, toks[j - 1].str)))

\* the lexer ends the compiler when it is asked for a token it cannot form
Lexed(toks, i) == IF toks[i].type = "TOK_FATAL" THEN 0 ELSE i

\* one round of the loop of do_parse_program: i is at the type keyword, the
\* name is c->cur.str behind it, whatever token is there
do_parse_decl(toks, i, globals, funcs) ==
    ThenAt(Lexed(toks, next_token(toks, i)), LAMBDA n :
        ThenAt(Lexed(toks, next_token(toks, n)), LAMBDA j :
            IF toks[j].type = "TOK_LPAREN"
            THEN Then(parse_params(toks, next_token(toks, j), <<>>), LAMBDA ps :
                    ThenAt(expect(toks, ps.pos, "TOK_RPAREN"), LAMBDA k :
                        Then(parse_block(toks, k), LAMBDA body :
                            do_parse_program_from(toks, body.pos, globals,
                                Append(funcs, AstFunc(toks[n].str, ps.node, body.node,
                                                      toks[i].type = "TOK_VOID"))))))
            ELSE Then(parse_opt_array(toks, j), LAMBDA arr :
                    Then(parse_opt_init(toks, arr.pos), LAMBDA in :
                        ThenAt(expect(toks, in.pos, "TOK_SEMI"), LAMBDA k :
                            do_parse_program_from(toks, k,
                                Append(globals, AstVardecl(toks[n].str, in.node,
                                                           arr.node.is_array,
                                                           arr.node.array_size)),
                                funcs))))))

do_parse_program_from(toks, i, globals, funcs) ==
    IF toks[i].type = "TOK_EOF" THEN Parsed(AstProgram(globals, funcs), i)
    ELSE IF toks[i].type \in {"TOK_INT", "TOK_VOID"} THEN do_parse_decl(toks, i, globals, funcs)
    ELSE ParseError

do_parse_program(toks) == do_parse_program_from(toks, 1, <<>>, <<>>)

RECURSIVE TokensFrom(_)
FatalToken == [NoToken EXCEPT !.type = "TOK_FATAL"]

TokensBehind(L) ==
    IF L.status # "ok" THEN <<FatalToken>>
    ELSE IF L.cur.type = "TOK_EOF" THEN <<L.cur>>
    ELSE <<L.cur>> \o TokensFrom(L)

\* the tokens next_token() produces from the state L on
TokensFrom(L) == TokensBehind(lex_next_token(L))


(***************************************************************************)
(* SpecDecl: a file of one well-formed declaration, or none, followed by   *)
(* up to MaxDeclToks words; the words are separated by one space.          *)
(***************************************************************************)
MaxDeclToks == 4

DeclWords ==
    <<<<"i", "n", "t">>, <<"v", "o", "i", "d">>, <<"x">>, <<"5">>, <<";">>, <<"(">>, <<")">>,
      <<"{">>, <<"}">>>>

\* nothing;  int x ;  int x ( ) { }  and  void x ( int x ) { }
DeclPrefixes == {<<>>, <<1, 3, 5>>, <<1, 3, 6, 7, 8, 9>>, <<2, 3, 6, 1, 3, 7, 8, 9>>}

RECURSIVE WordsText(_, _)
WordsText(words, i) ==
    IF i > Len(words) THEN <<NUL>>
    ELSE DeclWords[words[i]] \o <<" ">> \o WordsText(words, i + 1)

InitDecl ==
    /\ phase = "start"
    /\ \E pre \in DeclPrefixes : \E n \in 0..MaxDeclToks : \E ws \in [1..n -> 1..Len(DeclWords)] :
          src = [mem |-> WordsText(pre \o ws, 1), start |-> Len(pre) + 1]
    /\ tree = NULL
    /\ c = NoCompiler
    /\ fi = 0
    /\ m = NoMachine
    /\ calls = <<>>

\* parse_only: the first next_token(), then do_parse_program
ParseProgram ==
    /\ phase = "start"
    /\ tree' = do_parse_program(TokensFrom(Lexer(src.mem)))
    /\ phase' = "parsed"
    /\ UNCHANGED <<src, c, fi, m, calls>>

NextDecl == ParseProgram

SpecDecl == InitDecl /\ [][NextDecl]_vars

DeclToks == TokensFrom(Lexer(src.mem))

\* the declaration behind the well-formed one starts with a type keyword
\* that is not followed by an identifier
NoNameBehindType ==
    /\ DeclToks[src.start].type \in {"TOK_INT", "TOK_VOID"}
    /\ DeclToks[src.start + 1].type # "TOK_IDENT"

\* C17: a top-level declaration whose type keyword is not followed by an
\* identifier token, as in  int 5;  or  int ;; , is rejected with the fatal
\* error; no global or function gets a name that was not an identifier.
C17_TypeThenIdentifier ==
    phase = "parsed" /\ NoNameBehindType => ~tree.ok

\* what do_parse_program does: the token behind the type keyword is skipped
\* unseen, and the declaration is named by the text c->cur.str still holds,
\* that of the type keyword
C17_NamedByKeyword ==
    phase = "parsed" /\ NoNameBehindType /\ tree.ok =>
        \/ \E k \in 1..Len(tree.node.globals) : tree.node.globals[k].name \in {"int", "void"}
        \/ \E k \in 1..Len(tree.node.funcs) : tree.node.funcs[k].name \in {"int", "void"}


(***************************************************************************)
(* SpecAddr: int main(int p, int q) { int x; int y; v = 99; return &v; }   *)
(* for v one of p, q, x, y, alone in the file or behind a function that    *)
(* has left its own entries in the slots of the symbol table.              *)
(***************************************************************************)
AddrVars == {"p", "q", "x", "y"}

\* nothing;  int e() { int a; int b; return 0; }  and
\* int e(int a) { int b; return 0; }
EarlierFuncs ==
    <<<<>>,
      <<AstFunc("e", <<>>,
                AstBlock(<<AstVardecl("a", NULL, FALSE, 0), AstVardecl("b", NULL, FALSE, 0),
                           AstReturn(AstNum(0))>>), FALSE)>>,
      <<AstFunc("e", <<"a">>,
                AstBlock(<<AstVardecl("b", NULL, FALSE, 0), AstReturn(AstNum(0))>>), FALSE)>>>>

AddrMain(v) ==
    AstFunc("main", <<"p", "q">>,
            AstBlock(<<AstVardecl("x", NULL, FALSE, 0), AstVardecl("y", NULL, FALSE, 0),
                       AstAssign(AstVar(v), AstNum(99), 0), AstReturn(AstAddr(v))>>), FALSE)

InitAddr ==
    /\ InitRun
    /\ \E v \in AddrVars, e \in 1..Len(EarlierFuncs), t \in Targets :
          src = Run(AstProgram(<<>>, EarlierFuncs[e] \o <<AddrMain(v)>>), "main", <<1, 2>>, t,
                    [v |-> v, earlier |-> e])

SpecAddr == InitAddr /\ [][NextRun]_vars

\* main has returned an address, and the word there is the 99 stored to v
AddressHoldsValue == Acc \in DOMAIN m.mem /\ m.mem[Acc] = 99

\* C18: for every parameter and local x of a function, &x is the address a
\* read of x loads from and an assignment to x stores to, whatever functions
\* were compiled before: the word at the address main returns for &v holds
\* the 99 main has stored to v.
C18_AddressOfVariable ==
    /\ NoFault
    /\ Halted => AddressHoldsValue

\* the address of a local is the address of its slot
C18_AddressOfLocal ==
    Halted /\ src.test.v \in {"x", "y"} => AddressHoldsValue

\* the address of a parameter is formed from the offset an earlier function
\* left in the entry's slot of the symbol table: it is the parameter's slot
\* where a local of e had the offset of that slot, and another address
\* otherwise
C18_AddressOfParameter ==
    Halted /\ src.test.v \in {"p", "q"} =>
        (AddressHoldsValue <=>
            \/ src.test.earlier = 2
            \/ src.test.earlier = 3 /\ src.test.v = "q")


(***************************************************************************)
(* The depth of the expression stack, over the runs of SpecCall: a return  *)
(* statement evaluates its expression and then runs the epilogue.          *)
(***************************************************************************)
\* the expression of a return statement has been evaluated
AtEpilogue == phase = "run" /\ m.status = "run" /\ SameIns(c.out[m.pc], Epilogue(c.is_arm64)[1])

\* the registers a call pops its arguments into
NumArgRegs(is_arm64) == Len(ArgRegs(is_arm64))

\* C19: the code of an expression is stack-neutral, for every expression
\* form and every number of call arguments: where the expression of a
\* return statement has been evaluated the stack pointer is where the
\* prologue has put it, FrameSize below the frame pointer.
C19_StackNeutral ==
    AtEpilogue => SP = FP - FrameSize

\* with at most as many arguments as there are argument registers every
\* push has its pop
C19_NeutralWithinRegisters ==
    AtEpilogue /\ src.test.n <= NumArgRegs(src.is_arm64) => SP = FP - FrameSize

\* every argument beyond the registers is pushed and never popped
C19_ExcessArgumentsStay ==
    AtEpilogue /\ calls = <<>> /\ src.test.kind = "param"
               /\ src.test.n > NumArgRegs(src.is_arm64) =>
        SP = FP - FrameSize
                - (src.test.n - NumArgRegs(src.is_arm64)) * (IF src.is_arm64 THEN 16 ELSE 8)


(***************************************************************************)
(* SpecTable: the symbol table across the functions of one file            *)
(*     int g = 42;  int arr[4];                                            *)
(*     int h(..) { .. }            a function of TableFuncs                *)
(*     int main() { return v; }    for v one of TableNames                 *)
(* generated one function at a time (NextGen).                             *)
(***************************************************************************)
TableNames == {"g", "arr", "p", "x", "u"}

\* h with a parameter and a local, with a parameter and a local that are
\* named as the globals, with an array, and with no symbol of its own
TableFuncs ==
    <<AstFunc("h", <<"p">>,
              AstBlock(<<AstVardecl("x", AstVar("p"), FALSE, 0), AstReturn(AstVar("x"))>>), FALSE),
      AstFunc("h", <<"g">>,
              AstBlock(<<AstVardecl("arr", AstVar("g"), FALSE, 0), AstReturn(AstVar("arr"))>>),
              FALSE),
      AstFunc("h", <<"p", "x">>,
              AstBlock(<<AstVardecl("g", NULL, TRUE, 3), AstVardecl("x", AstNum(1), FALSE, 0),
                         AstReturn(AstVar("x"))>>), FALSE),
      AstFunc("h", <<>>, AstBlock(<<AstReturn(AstVar("g"))>>), FALSE)>>

TableProgram(h, v) ==
    AstProgram(<<AstVardecl("g", AstNum(42), FALSE, 0), AstVardecl("arr", NULL, TRUE, 4)>>,
               <<TableFuncs[h],
                 AstFunc("main", <<>>, AstBlock(<<AstReturn(AstVar(v))>>), FALSE)>>)

InitTable ==
    /\ phase = "start"
    /\ \E h \in 1..Len(TableFuncs), v \in TableNames, t \in Targets :
          src = [prog |-> TableProgram(h, v), is_arm64 |-> t.is_arm64, is_linux |-> t.is_linux,
                 test |-> [h |-> h, v |-> v]]
    /\ tree = NULL
    /\ c = NoCompiler
    /\ fi = 0
    /\ m = NoMachine
    /\ calls = <<>>

SpecTable == InitTable /\ [][NextGen]_vars

\* this step has emitted the code of a function
FuncEmitted == phase = "funcs" /\ phase' = "funcs" /\ fi' = fi + 1

\* C21: after the code of a function has been emitted the entry count is
\* what it was at the entry of the function, the number of globals, the
\* entries below the count are unchanged and every name looks up as before;
\* a parameter or local of one function is not visible in the next, which
\* stops with "Undefined variable" where it names one.
C21_TableRestored ==
    [][/\ FuncEmitted =>
             /\ c'.nsymbols = c.nsymbols
             /\ c.nsymbols = Len(src.prog.globals)
             /\ \A k \in 1..c.nsymbols : c'.symbols[k] = c.symbols[k]
             /\ \A v \in TableNames : find_symbol(c', v) = find_symbol(c, v)
       /\ phase = "funcs" /\ fi = 2 /\ src.test.v \in {"p", "x", "u"} =>
             c'.status = "error" /\ c'.diag = "Undefined variable"]_vars

\* h has declared a parameter and a local named as the two globals, and the
\* table is back to the globals
C21_Witness ==
    /\ phase = "funcs" /\ fi = 2 /\ src.test.h = 2
    /\ c.nsymbols = 2 /\ Len(c.symbols) = 4
    /\ c.symbols[3].name = "g" /\ c.symbols[3].is_param
    /\ c.symbols[4].name = "arr"
    /\ find_symbol(c, "g") = 1 /\ find_symbol(c, "arr") = 2


(***************************************************************************)
(* SpecShadow: a redeclaration inside a function                           *)
(*     int g = 42;                                                         *)
(*     int main(int a) { int x = 3; int r = v; <int v = 5;> return r*10+v; }*)
(* for v the global g, the parameter a or the local x, the redeclaration   *)
(* standing in the body itself or inside a block, an if or two blocks.     *)
(***************************************************************************)
ShadowedNames == {"g", "a", "x"}

ShadowWraps == {"plain", "block", "if", "nested"}

Redeclared(v, wrap) ==
    LET decl == AstVardecl(v, AstNum(5), FALSE, 0)
    IN CASE wrap = "plain" -> decl
         [] wrap = "block" -> AstBlock(<<decl>>)
         [] wrap = "if" -> AstIf(AstNum(1), AstBlock(<<decl>>), NULL)
         [] wrap = "nested" -> AstBlock(<<AstBlock(<<decl>>)>>)

ShadowProgram(v, wrap) ==
    AstProgram(<<GlobalG>>,
               <<AstFunc("main", <<"a">>,
                         AstBlock(<<AstVardecl("x", AstNum(3), FALSE, 0),
                                    AstVardecl("r", AstVar(v), FALSE, 0),
                                    Redeclared(v, wrap),
                                    AstReturn(AstBinop("TOK_PLUS",
                                        AstBinop("TOK_STAR", AstVar("r"), AstNum(10)),
                                        AstVar(v)))>>), FALSE)>>)

InitShadow ==
    /\ InitRun
    /\ \E v \in ShadowedNames, wrap \in ShadowWraps, a \in {0, 7}, t \in Targets :
          src = Run(ShadowProgram(v, wrap), "main", <<a>>, t, [v |-> v, wrap |-> wrap, a |-> a])

SpecShadow == InitShadow /\ [][NextRun]_vars

\* the greatest index up to n whose entry is named name, 0 when there is none
GreatestMatch(symbols, name, n) ==
    IF \E k \in 1..n : symbols[k].name = name
    THEN CHOOSE k \in 1..n : symbols[k].name = name /\ \A j \in (k + 1)..n : symbols[j].name # name
    ELSE 0

\* what v names before its redeclaration
EarlierValue == CASE src.test.v = "g" -> 42 [] src.test.v = "a" -> src.test.a [] src.test.v = "x" -> 3

LinksShadow == ~(src.is_arm64 /\ src.is_linux /\ src.test.v = "g")

\* C22: find_symbol returns the entry with the greatest index whose name
\* matches, 0 when none does; a local declared later shadows the global,
\* parameter or local of its name from its declaration on, also behind the
\* end of the block it was declared in: main returns 10 times the value v
\* named before the redeclaration plus the 5 of the redeclared v.
C22_LaterShadowsEarlier ==
    /\ phase \in {"compiled", "run"} =>
          \A n \in 0..Len(c.symbols) : \A name \in {"g", "a", "x", "r", "u"} :
              find_symbol([c EXCEPT !.nsymbols = n], name) = GreatestMatch(c.symbols, name, n)
    /\ LinksShadow => NoFault
    /\ LinksShadow /\ Halted => Acc = EarlierValue * 10 + 5

\* main has returned 75: the parameter a was 7, and the a declared inside
\* two nested blocks is the one the return statement reads
C22_Witness ==
    /\ Halted
    /\ src.test.v = "a" /\ src.test.wrap = "nested" /\ src.test.a = 7
    /\ Acc = 75
    /\ Len(c.symbols) = 5 /\ c.symbols[2].name = "a" /\ c.symbols[5].name = "a"


(***************************************************************************)
(* SpecFrame: the frame of one function                                    *)
(*     int main(int p1, .., int pn) { <declarations> return v; }           *)
(* with up to MaxFrameParams parameters and up to MaxFrameDecls            *)
(* declarations of scalars and arrays, redeclarations included; v is a     *)
(* parameter or scalar of the function, or the literal 0.                  *)
(***************************************************************************)
MaxFrameParams == 2

MaxFrameDecls == 3

\* the element counts of the declared arrays
ElemCounts == {0, 1, 3}

\* int x;  int y = 7;  int p1;  and  int x[n];
FrameDecls ==
    {AstVardecl("x", NULL, FALSE, 0), AstVardecl("y", AstNum(7), FALSE, 0),
     AstVardecl("p1", AstNum(9), FALSE, 0)}
    \cup {AstVardecl("x", NULL, TRUE, n) : n \in ElemCounts}

FrameProgram(np, decls, v) ==
    AstProgram(<<>>,
               <<AstFunc("main", [k \in 1..np |-> ParamName(k)],
                         AstBlock(decls \o <<AstReturn(IF v = "" THEN AstNum(0) ELSE AstVar(v))>>),
                         FALSE)>>)

InitFrame ==
    /\ phase = "start"
    /\ \E np \in 0..MaxFrameParams, n \in 0..MaxFrameDecls, t \in Targets :
          \E decls \in [1..n -> FrameDecls] :
              \E v \in {""} \cup {ParamName(k) : k \in 1..np}
                              \cup {decls[k].name : k \in {j \in 1..n : decls[j].name # "x"}} :
                  src = [prog |-> FrameProgram(np, decls, v),
                         is_arm64 |-> t.is_arm64, is_linux |-> t.is_linux]
    /\ tree = NULL
    /\ c = NoCompiler
    /\ fi = 0
    /\ m = NoMachine
    /\ calls = <<>>

SpecFrame == InitFrame /\ [][NextGen]_vars

\* the entries the function has added to the table
FrameSymbols == (c.nsymbols + 1)..Len(c.symbols)

\* where the code of a read or write of the symbol addresses the frame,
\* relative to the frame pointer
SlotBase(sym) == IF sym.is_param THEN -(sym.param_index + 1) * 8 ELSE -sym.offset

\* the 8-byte slot of a parameter or scalar, the 4 * N bytes of an array
SlotBytes(sym) ==
    SlotBase(sym) .. (SlotBase(sym) + (IF sym.is_array THEN 4 * sym.array_size ELSE 8) - 1)

\* the bytes of the frame an emitted line reads or writes
AccessBytes(ins) ==
    CASE ins.op = "str" /\ ins.b = "x29" ->
            ins.c .. (ins.c + (IF ins.a \in WRegs THEN 4 ELSE 8) - 1)
      [] ins.op = "ldr" /\ ins.b = "x29" -> ins.c .. (ins.c + 3)
      [] ins.op = "movq_st" -> ins.b .. (ins.b + 7)
      [] ins.op = "movl_st" -> ins.b .. (ins.b + 3)
      [] ins.op = "movl_ld" -> ins.a .. (ins.a + 3)
      [] OTHER -> {}

FunctionGenerated == phase \in {"funcs", "emitted"} /\ fi = 2 /\ c.status = "ok"

\* C23: within one function the byte ranges of the frame of different
\* symbols are pairwise disjoint: the 8-byte slot of a parameter, the slot
\* of a scalar local and the 4 * N bytes of a local array never overlap,
\* redeclarations included; every access the code makes to the frame lies
\* in the range of one symbol.
C23_SlotsDisjoint ==
    FunctionGenerated =>
        /\ \A j, k \in FrameSymbols :
              j # k => SlotBytes(c.symbols[j]) \cap SlotBytes(c.symbols[k]) = {}
        /\ \A l \in 1..Len(c.out) :
              AccessBytes(c.out[l]) # {} =>
                  \E k \in FrameSymbols : AccessBytes(c.out[l]) \subseteq SlotBytes(c.symbols[k])

\* two parameters, an array of three elements between two scalars, one
\* of them a redeclaration of a parameter
C23_Witness ==
    /\ FunctionGenerated
    /\ Len(c.symbols) = 5
    /\ c.symbols[2].is_param
    /\ ~c.symbols[3].is_array
    /\ c.symbols[4].is_array /\ c.symbols[4].array_size = 3
    /\ c.symbols[5].name = "p1"


(***************************************************************************)
(* SpecLabels: two functions with control flow                             *)
(*     int f(int a, int b) { <one statement, or none> return 0; }          *)
(*     int main(int a, int b) { <up to MaxLabelStmts statements> return 0; }*)
(* the statements drawn from LabelStmts, generated one function at a time. *)
(***************************************************************************)
MaxLabelStmts == 2

\* if (a) return 1;
\* if (a) { if (b) return 1; else return 2; } else return 3;
\* while (a) a = a - 1;
\* for (;;) return 0;
\* for (a = 0; a < b; a = a + 1) { if (a && b) return a; }
\* return a || b;
LabelStmts ==
    {AstIf(AstVar("a"), AstReturn(AstNum(1)), NULL),
     AstIf(AstVar("a"),
           AstBlock(<<AstIf(AstVar("b"), AstReturn(AstNum(1)), AstReturn(AstNum(2)))>>),
           AstReturn(AstNum(3))),
     AstWhile(AstVar("a"),
              AstAssign(AstVar("a"), AstBinop("TOK_MINUS", AstVar("a"), AstNum(1)), 0)),
     AstFor(NULL, NULL, NULL, AstReturn(AstNum(0))),
     AstFor(AstAssign(AstVar("a"), AstNum(0), 0),
            AstBinop("TOK_LT", AstVar("a"), AstVar("b")),
            AstAssign(AstVar("a"), AstBinop("TOK_PLUS", AstVar("a"), AstNum(1)), 0),
            AstBlock(<<AstIf(AstBinop("TOK_AND", AstVar("a"), AstVar("b")),
                             AstReturn(AstVar("a")), NULL)>>)),
     AstReturn(AstBinop("TOK_OR", AstVar("a"), AstVar("b")))}

LabelFunc(name, stmts) ==
    AstFunc(name, <<"a", "b">>, AstBlock(stmts \o <<AstReturn(AstNum(0))>>), FALSE)

InitLabels ==
    /\ phase = "start"
    /\ \E n1 \in 0..1, n2 \in 0..MaxLabelStmts, t \in Targets :
          \E b1 \in [1..n1 -> LabelStmts], b2 \in [1..n2 -> LabelStmts] :
              src = [prog |-> AstProgram(<<>>, <<LabelFunc("f", b1), LabelFunc("main", b2)>>),
                     is_arm64 |-> t.is_arm64, is_linux |-> t.is_linux]
    /\ tree = NULL
    /\ c = NoCompiler
    /\ fi = 0
    /\ m = NoMachine
    /\ calls = <<>>

SpecLabels == InitLabels /\ [][NextGen]_vars

LabelName(n) == "L" \o ToString(n)

\* the lines of the output that define the label L<n>
DefinitionsOf(n) ==
    {k \in 1..Len(c.out) : c.out[k].op = "label" /\ c.out[k].a = LabelName(n)}

\* the label a line branches to, "" for a line that is no branch
BranchTarget(ins) ==
    CASE ins.op \in {"cbz", "cbnz"} -> ins.b
      [] ins.op \in {"b", "je", "jne", "jmp"} -> ins.a
      [] OTHER -> ""

\* the functions whose code has been emitted
Generated == {src.prog.funcs[k].name : k \in 1..(fi - 1)}

\* the numbers of the labels L<n> defined in the lines text of the output
NumbersIn(text) ==
    {n \in 0..(c.label_count - 1) :
        LabelName(n) \in {c.out[k].a : k \in {j \in text : c.out[j].op = "label"}}}

\* the numbers of the labels L<n> defined in the code of function name
LabelsIn(name) == IF name \in Generated THEN NumbersIn(TextOf(c, name)) ELSE {}

LabelsGenerated == phase \in {"funcs", "emitted"} /\ c.status = "ok"

\* every branch in the lines text targets a label defined in these lines
BranchesStayIn(text) ==
    \A names \in {{c.out[k].a : k \in {j \in text : c.out[j].op = "label"}}} :
        \A k \in text : BranchTarget(c.out[k]) # "" => BranchTarget(c.out[k]) \in names

\* every label allocated so far is defined once, and a branch stays inside
\* its function
LabelsWellFormed ==
    /\ \A n \in 0..(c.label_count - 1) : Cardinality(DefinitionsOf(n)) = 1
    /\ \A name \in Generated : BranchesStayIn(TextOf(c, name))

\* C24 as stated: the labels are numbered from a per-function counter, which
\* starts at 0 at the entry of every function and only increases; no label
\* L<n> is defined twice in the output and every branch targets a label of
\* its own function.
C24_PerFunctionCounter ==
    /\ phase = "funcs" /\ fi <= Len(src.prog.funcs) => c.label_count = 0
    /\ LabelsGenerated => LabelsWellFormed

\* C24: the labels are numbered from one counter of the whole compilation,
\* which a function never resets: the labels of main are numbered above all
\* labels of f, the labels of a function are a run of consecutive numbers,
\* every one of them is defined once in the output, and every branch
\* targets a label of its own function.
C24_OneCounter ==
    LabelsGenerated =>
        /\ LabelsWellFormed
        /\ \A lf \in {LabelsIn("f")}, lm \in {LabelsIn("main")} :
              /\ \A i, j \in lf : \A n \in i..j : n \in lf
              /\ \A i, j \in lm : \A n \in i..j : n \in lm
              /\ \A i \in lf, j \in lm : i < j
              /\ "main" \in Generated => lf \cup lm = 0..(c.label_count - 1)

\* f and main have both allocated labels, main five of them, numbered
\* behind the two of f
C24_Witness ==
    /\ phase = "emitted"
    /\ LabelsIn("f") = {0, 1}
    /\ LabelsIn("main") = 2..6


(***************************************************************************)
(* SpecStrings: string literals in two functions                           *)
(*     int f(int a) { <one statement, or none> return 0; }                 *)
(*     int main(int a) { <up to MaxStrStmts statements> return 0; }        *)
(* the statements drawn from StrStmts, generated one function at a time.   *)
(***************************************************************************)
MaxStrStmts == 2

\* puts("A");  printf("B", "C", a);  a = "A";  return "D";
\* if (puts("E")) puts("F"); else { puts("G"); }
StrStmts ==
    {AstCall("puts", <<AstStr("A")>>),
     AstCall("printf", <<AstStr("B"), AstStr("C"), AstVar("a")>>),
     AstAssign(AstVar("a"), AstStr("A"), 0),
     AstReturn(AstStr("D")),
     AstIf(AstCall("puts", <<AstStr("E")>>), AstCall("puts", <<AstStr("F")>>),
           AstBlock(<<AstCall("puts", <<AstStr("G")>>)>>))}

StrFunc(name, stmts) ==
    AstFunc(name, <<"a">>, AstBlock(stmts \o <<AstReturn(AstNum(0))>>), FALSE)

InitStrings ==
    /\ phase = "start"
    /\ \E n1 \in 0..1, n2 \in 0..MaxStrStmts, t \in Targets :
          \E b1 \in [1..n1 -> StrStmts], b2 \in [1..n2 -> StrStmts] :
              src = [prog |-> AstProgram(<<>>, <<StrFunc("f", b1), StrFunc("main", b2)>>),
                     is_arm64 |-> t.is_arm64, is_linux |-> t.is_linux]
    /\ tree = NULL
    /\ c = NoCompiler
    /\ fi = 0
    /\ m = NoMachine
    /\ calls = <<>>

SpecStrings == InitStrings /\ [][NextGen]_vars

RECURSIVE StringsMet(_)
RECURSIVE StringsMetIn(_, _, _)
\* the contents of the string literals of the nodes seq[i], seq[i + step], ..
StringsMetIn(seq, i, step) ==
    IF i < 1 \/ i > Len(seq) THEN <<>>
    ELSE StringsMet(seq[i]) \o StringsMetIn(seq, i + step, step)

\* the contents of the string literals of a node in the order the generators
\* reach them: the arguments of a call from the last to the first
StringsMet(node) ==
    CASE node.type = "AST_STR" -> <<node.str>>
      [] node.type = "AST_CALL" -> StringsMetIn(node.args, Len(node.args), -1)
      [] node.type = "AST_ASSIGN" -> StringsMet(node.right)
      [] node.type = "AST_RETURN" -> StringsMet(node.value)
      [] node.type = "AST_IF" ->
            StringsMet(node.cond) \o StringsMet(node.then_branch) \o StringsMet(node.else_branch)
      [] node.type = "AST_BLOCK" -> StringsMetIn(node.stmts, 1, 1)
      [] node.type = "AST_FUNC" -> StringsMet(node.body)
      [] OTHER -> <<>>

\* the literals met while the functions generated so far were emitted
MetSoFar == StringsMetIn(SubSeq(src.prog.funcs, 1, fi - 1), 1, 1)

\* the label of the string with index k, as it is spelled on some target
StrNames(k) == {"str" \o ToString(k), "_str" \o ToString(k)}

\* the lines of the text that load the address of a string literal
StrRefs ==
    SelectSeq(c.out, LAMBDA ins : /\ ins.op \in {"adrp", "leaq_rip"}
                                  /\ SymbolOf(ins) \in UNION {StrNames(k) : k \in 0..Len(c.out)})

\* the lines behind the section directive of the string literals
StrSection ==
    SubSeq(c.out,
           1 + CHOOSE k \in 1..Len(c.out) :
                   c.out[k].op = "section" /\ c.out[k].a \in {".rodata", "__TEXT,__cstring"},
           Len(c.out))

\* C25: string literals are numbered in the order code generation meets
\* them: the k-th literal met, over all functions, is referenced by the
\* label with suffix k, and the strings section defines one label for each
\* index 0..n-1, in this order, with the content of the k-th literal met.
C25_StringsNumbered ==
    /\ phase \in {"funcs", "emitted"} =>
          /\ c.string_literals = MetSoFar
          /\ \A refs \in {StrRefs} :
                /\ Len(refs) = Len(MetSoFar)
                /\ \A k \in 1..Len(refs) : SymbolOf(refs[k]) \in StrNames(k - 1)
    /\ phase = "emitted" =>
          \A sec \in {StrSection} :
              /\ Len(sec) = 2 * Len(MetSoFar)
              /\ \A k \in 1..Len(MetSoFar) :
                    /\ sec[2 * k - 1].op = "label" /\ sec[2 * k - 1].a \in StrNames(k - 1)
                    /\ sec[2 * k].op = "asciz" /\ sec[2 * k].a = MetSoFar[k]

\* f has met "A" and main "C" before "B", the arguments of printf, and then
\* "A" again: four indices for three contents
C25_Witness ==
    /\ phase = "emitted"
    /\ c.string_literals = <<"A", "C", "B", "A">>
    /\ Len(StrSection) = 8


(***************************************************************************)
(* SpecFor: the order of the parts of a for loop                           *)
(*     int main(int n) { int i = 0; int t = 0;                             *)
(*                       for (init; cond; update) body                     *)
(*                       return t; }                                       *)
(* Every part appends its digit to t, written in base 5: init 1, cond 2,   *)
(* body 3, update 4.  cond is i < n and update adds 1 to i.                *)
(***************************************************************************)
MaxIters == 2

ForKinds == {"full", "nocond", "noinit", "noupdate"}

\* t = t * 5 + d
Mark(d) ==
    AstAssign(AstVar("t"),
              AstBinop("TOK_PLUS", AstBinop("TOK_STAR", AstVar("t"), AstNum(5)), AstNum(d)), 0)

\* e + 0 * (t = t * 5 + d)
Marked(e, d) == AstBinop("TOK_PLUS", e, AstBinop("TOK_STAR", AstNum(0), Mark(d)))

IncI == AstAssign(AstVar("i"), AstBinop("TOK_PLUS", AstVar("i"), AstNum(1)), 0)

ForLoop(kind) ==
    AstFor(IF kind = "noinit" THEN NULL ELSE Mark(1),
           IF kind = "nocond" THEN NULL
           ELSE AstBinop("TOK_LT", AstVar("i"), Marked(AstVar("n"), 2)),
           IF kind = "noupdate" THEN NULL
           ELSE AstAssign(AstVar("i"), Marked(AstBinop("TOK_PLUS", AstVar("i"), AstNum(1)), 4), 0),
           CASE kind = "nocond" ->
                   AstBlock(<<Mark(3),
                              AstIf(AstBinop("TOK_EQ", AstVar("i"), AstVar("n")),
                                    AstReturn(AstVar("t")), NULL)>>)
             [] kind = "noupdate" -> AstBlock(<<Mark(3), IncI>>)
             [] OTHER -> Mark(3))

\* behind the loop without a condition stands  return 0;
ForProgram(kind) ==
    AstProgram(<<>>,
               <<AstFunc("main", <<"n">>,
                         AstBlock(<<AstVardecl("i", AstNum(0), FALSE, 0),
                                    AstVardecl("t", AstNum(0), FALSE, 0),
                                    ForLoop(kind),
                                    AstReturn(IF kind = "nocond" THEN AstNum(0) ELSE AstVar("t"))>>),
                         FALSE)>>)

InitFor ==
    /\ InitRun
    /\ \E kind \in ForKinds, n \in 0..MaxIters, t \in Targets :
          src = Run(ForProgram(kind), "main", <<n>>, t, [kind |-> kind, n |-> n])

SpecFor == InitFor /\ [][NextRun]_vars

RECURSIVE Rounds(_, _)
\* the digits of n rounds of the loop
Rounds(round, n) == IF n = 0 THEN <<>> ELSE round \o Rounds(round, n - 1)

\* the digits a for loop of n rounds is to leave: init once, then cond,
\* body and update per round, and the cond that ends the loop
ForTrace(kind, n) ==
    CASE kind = "full" -> <<1>> \o Rounds(<<2, 3, 4>>, n) \o <<2>>
      [] kind = "noinit" -> Rounds(<<2, 3, 4>>, n) \o <<2>>
      [] kind = "noupdate" -> <<1>> \o Rounds(<<2, 3>>, n) \o <<2>>
      [] kind = "nocond" -> <<1>> \o Rounds(<<3, 4>>, n) \o <<3>>

RECURSIVE Base5(_, _)
Base5(digits, k) == IF k = 0 THEN 0 ELSE Base5(digits, k - 1) * 5 + digits[k]

\* C26: the code of  for (init; cond; update) body  executes init once,
\* then repeats: cond, leaving the loop if it is zero, body, update, and
\* back to cond; update never runs before the first body, and a loop
\* without cond is left through a return only.  The digits left in t are
\* those of this order.
C26_ForOrder ==
    /\ NoFault
    /\ Halted => Acc = Base5(ForTrace(src.test.kind, src.test.n), Len(ForTrace(src.test.kind, src.test.n)))

\* two rounds of the full loop have left 1 234 234 2 in t
C26_Witness ==
    /\ Halted
    /\ src.test.kind = "full" /\ src.test.n = 2
    /\ Acc = Base5(<<1, 2, 3, 4, 2, 3, 4, 2>>, 8)


(***************************************************************************)
(* SpecBoth: the operands of && and ||                                     *)
(*     int k;                                                              *)
(*     int bump(int v) { k = k + 5; return v; }                            *)
(*     int main(int a, int b) { int t = 0; int r = <a> op <b>;             *)
(*                              return (t + k) * 2 + r; }                  *)
(* "assign": <a> is a + 0 * (t = t * 5 + 1), <b> is b + 0 * (t = t * 5 + 2)*)
(* "call":   <a> is a, <b> is bump(b)                                      *)
(***************************************************************************)
BothKinds == {"assign", "call"}

BothValues == {0, 1, 6}

Bump ==
    AstFunc("bump", <<"v">>,
            AstBlock(<<AstAssign(AstVar("k"), AstBinop("TOK_PLUS", AstVar("k"), AstNum(5)), 0),
                       AstReturn(AstVar("v"))>>), FALSE)

BothOperands(kind, op) ==
    IF kind = "assign"
    THEN AstBinop(op, Marked(AstVar("a"), 1), Marked(AstVar("b"), 2))
    ELSE AstBinop(op, AstVar("a"), AstCall("bump", <<AstVar("b")>>))

BothProgram(kind, op) ==
    AstProgram(<<AstVardecl("k", NULL, FALSE, 0)>>,
               <<Bump,
                 AstFunc("main", <<"a", "b">>,
                         AstBlock(<<AstVardecl("t", AstNum(0), FALSE, 0),
                                    AstVardecl("r", BothOperands(kind, op), FALSE, 0),
                                    AstReturn(AstBinop("TOK_PLUS",
                                        AstBinop("TOK_STAR",
                                                 AstBinop("TOK_PLUS", AstVar("t"), AstVar("k")),
                                                 AstNum(2)),
                                        AstVar("r")))>>), FALSE)>>)

InitBoth ==
    /\ InitRun
    /\ \E kind \in BothKinds, op \in {"TOK_AND", "TOK_OR"}, a \in BothValues, b \in BothValues,
          t \in Targets :
          src = Run(BothProgram(kind, op), "main", <<a, b>>, t, [kind |-> kind, op |-> op])

SpecBoth == InitBoth /\ [][NextRun]_vars

\* the value of a op b
LogicValue(op, a, b) ==
    IF op = "TOK_AND" THEN Bit(a # 0 /\ b # 0) ELSE Bit(a # 0 \/ b # 0)

\* the AArch64 Linux output refers to the global k by a name it does not define
LinksBoth == ~(src.is_arm64 /\ src.is_linux)

\* C27: the code of a && b and of a || b evaluates both operands, a before
\* b, whatever the value of a: the assignment in b and the call in b happen
\* on every execution, also where a alone decides the result.  The two
\* assignments leave the digits 1 2 in t, the call leaves 5 in k.
C27_BothOperandsEvaluated ==
    /\ LinksBoth => NoFault
    /\ LinksBoth /\ Halted =>
          Acc = (IF src.test.kind = "assign" THEN 7 ELSE 5) * 2
                + LogicValue(src.test.op, src.args[1], src.args[2])

\* a is 0 in a && bump(b): a alone decides the result 0, and bump has run
C27_Witness ==
    /\ Halted
    /\ src.test.kind = "call" /\ src.test.op = "TOK_AND" /\ src.args = <<0, 6>>
    /\ Acc = 10
    /\ m.mem[SymAddr(c.out, Prefix(c) \o "k")] = 5


(***************************************************************************)
(* SpecAlign: calls at every depth of the expression stack, on x86-64      *)
(*     int h(int v) { return v + 1; }                                      *)
(*     int g(int v) { return 1 + (2 + .. (d2 + h(v))); }                   *)
(*     int main(int a) { return 1 + (2 + .. (d1 + g(a))); }                *)
(* Each left operand is pushed before the right one is evaluated, so the   *)
(* call in main is reached with d1 and the call in g with d2 words pushed. *)
(***************************************************************************)
MaxPending == 3

RECURSIVE Nest(_, _, _)
\* k + (k + 1 + .. (d + e))
Nest(k, d, e) == IF k > d THEN e ELSE AstBinop("TOK_PLUS", AstNum(k), Nest(k + 1, d, e))

AlignProgram(d1, d2) ==
    AstProgram(<<>>,
               <<AstFunc("h", <<"v">>,
                         AstBlock(<<AstReturn(AstBinop("TOK_PLUS", AstVar("v"), AstNum(1)))>>),
                         FALSE),
                 AstFunc("g", <<"v">>,
                         AstBlock(<<AstReturn(Nest(1, d2, AstCall("h", <<AstVar("v")>>)))>>),
                         FALSE),
                 AstFunc("main", <<"a">>,
                         AstBlock(<<AstReturn(Nest(1, d1, AstCall("g", <<AstVar("a")>>)))>>),
                         FALSE)>>)

InitAlign ==
    /\ InitRun
    /\ \E d1 \in 0..MaxPending, d2 \in 0..MaxPending, a \in {0, 7}, lin \in BOOLEAN :
          src = Run(AlignProgram(d1, d2), "main", <<a>>, [is_arm64 |-> FALSE, is_linux |-> lin],
                    [d1 |-> d1, d2 |-> d2])

SpecAlign == InitAlign /\ [][NextRun]_vars

Running == phase = "run" /\ m.status = "run"

\* the next instruction is the callq of a call sequence
AtCall == Running /\ c.out[m.pc].op = "callq"

\* the next instruction is the pushq %rbx that opens a call sequence
BeforeSequence == Running /\ SameIns(c.out[m.pc], I("pushq", "rbx", 0, 0))

\* the last instruction was the popq %rbx that closes a call sequence
AfterSequence == Running /\ m.pc > 1 /\ SameIns(c.out[m.pc - 1], I("popq", "rbx", 0, 0))

\* the words the function that is running has pushed at its call: d1 in
\* main, d2 in g
Pending == IF calls = <<>> THEN src.test.d1 ELSE src.test.d2

\* what %rbx holds around the call sequence of the running function: the
\* entry value in main, and in g what the sequence of main has put there
RbxAround == IF calls = <<>> THEN 0 ELSE calls[1].fp - FrameSize - 8 * src.test.d1 - 8

\* C28: on x86-64 the stack pointer is a multiple of 16 and %eax is 0 at
\* every callq, whatever the depth of the stack before the call sequence;
\* behind the sequence %rsp and %rbx have the values they had just before
\* its pushq %rbx.
C28_CallAligned ==
    /\ NoFault
    /\ AtCall => SP % 16 = 0 /\ Acc = 0
    /\ BeforeSequence \/ AfterSequence =>
          /\ SP = FP - FrameSize - 8 * Pending
          /\ R(m, "rbx") = RbxAround
    /\ Halted => Acc = src.args[1] + 1 + (src.test.d1 * (src.test.d1 + 1)) \div 2
                                       + (src.test.d2 * (src.test.d2 + 1)) \div 2

\* g is at its callq with two words pushed and %rbx saved on top of them:
\* the stack pointer has been moved down to the multiple of 16, away from
\* where %rbx keeps it
C28_Witness ==
    /\ AtCall
    /\ Len(calls) = 1
    /\ src.test.d2 = 2
    /\ SP % 16 = 0
    /\ R(m, "rbx") # SP


(***************************************************************************)
(* SpecOps: every text of at most MaxOpsLen bytes out of OpChars, alone or *)
(* between the identifiers a and b, lexed token by token (NextLex).        *)
(***************************************************************************)
MaxOpsLen == 3

OpChars == {"+", "-", "=", "!", "<", ">", "&", "|", "a", " "}

InitOps ==
    /\ phase = "start"
    /\ \E n \in 0..MaxOpsLen : \E ops \in [1..n -> OpChars] : \E wrap \in BOOLEAN :
          \E text \in {IF wrap THEN <<"a">> \o ops \o <<"b">> ELSE ops} :
              src = [text |-> text, mem |-> text \o <<NUL>>]
    /\ tree = NULL
    /\ c = NoCompiler
    /\ fi = 0
    /\ m = NoMachine
    /\ calls = <<>>

SpecOps == InitOps /\ [][NextLex]_vars

\* the two-character operators: first byte, second byte, token
TwoCharOps ==
    {<<"=", "=", "TOK_EQ">>, <<"!", "=", "TOK_NE">>, <<"<", "=", "TOK_LE">>,
     <<">", "=", "TOK_GE">>, <<"&", "&", "TOK_AND">>, <<"|", "|", "TOK_OR">>,
     <<"+", "+", "TOK_PLUSPLUS">>, <<"-", "-", "TOK_MINUSMINUS">>,
     <<"+", "=", "TOK_PLUSEQ">>, <<"-", "=", "TOK_MINUSEQ">>}

\* the first and the second byte of the token next_token has just scanned
FirstByte == src.mem[c.cur.start + 1]

SecondByte == IF c.cur.start + 2 <= Len(src.mem) THEN src.mem[c.cur.start + 2] ELSE NUL

\* C29: the lexer is maximal-munch: where the next two bytes form one of
\* the two-character operators they are returned as that one token, never
\* as two tokens of one character; a & that is not followed by & is the
\* address-of token, and a | that is not followed by | is the fatal error.
C29_MaximalMunch ==
    phase = "lex" =>
        /\ \A op \in TwoCharOps :
              FirstByte = op[1] /\ SecondByte = op[2] =>
                  c.status = "ok" /\ c.cur.type = op[3] /\ c.pos = c.cur.start + 2
        /\ FirstByte = "&" /\ SecondByte # "&" =>
              c.status = "ok" /\ c.cur.type = "TOK_AMP" /\ c.pos = c.cur.start + 1
        /\ FirstByte = "|" /\ SecondByte # "|" => c.status = "error"

\* a+++b: behind a and ++ the lexer has produced the + in front of b
C29_Witness ==
    /\ TokenProduced
    /\ src.text = <<"a", "+", "+", "+", "b">>
    /\ c.cur.type = "TOK_PLUS" /\ c.cur.start = 3 /\ c.pos = 4


(***************************************************************************)
(* The end of lexing and parsing: next_token() call by call over the texts *)
(* of SpecLex, and do_parse_program over the files of SpecDecl.            *)
(***************************************************************************)
\* the text holds a string literal that is open where the text ends in a
\* backslash
OpenStringEndsInBackslash ==
    /\ Len(src.text) >= 2
    /\ src.text[Len(src.text)] = "\\"
    /\ \E j \in 1..(Len(src.text) - 1) : src.text[j] = "\""

\* the token just read lies inside the source text and is not empty
TokenInsideText ==
    /\ c.cur.type # "TOK_EOF" => c.cur.start < c.pos /\ c.pos <= Len(src.text)
    /\ c.cur.type = "TOK_EOF" => c.pos = Len(src.text)

\* C30: lexing always terminates: on every finite source text every call of
\* next_token ends with a token that consumed at least one byte of the
\* text, with the end-of-input token at the end of the text, or with the
\* fatal error; no loop of the lexer runs on at an unexpected end of input.
C30_StopsAtEndOfInput ==
    phase = "lex" =>
        /\ c.status \in {"ok", "error"}
        /\ c.status = "ok" => TokenInsideText

\* the whitespace, comment, identifier, number and operator loops stop at
\* the terminating NUL: a call of next_token leaves the text only inside a
\* string literal that is open behind a backslash
C30_StopsUnlessBackslash ==
    phase = "lex" /\ ~OpenStringEndsInBackslash =>
        /\ c.status \in {"ok", "error"}
        /\ c.status = "ok" => TokenInsideText

\* every call of next_token that returns a token other than end-of-input
\* has moved the position forward
C30_TokenConsumes ==
    [][phase' = "lex" /\ c'.status = "ok" /\ c'.cur.type # "TOK_EOF" =>
          c'.pos > (IF phase = "start" THEN 0 ELSE c.pos)]_vars

\* over the files of SpecDecl the loops of the parser end: with the program
\* at the end-of-input token, or with the fatal error
C30_ParserEnds ==
    phase = "parsed" /\ tree.ok =>
        tree.pos = Len(DeclToks) /\ DeclToks[tree.pos].type = "TOK_EOF"

=============================================================================
